---------------------------- MODULE Spec2Model ----------------------------
(***************************************************************************)
(* Model of the freedesktop icon lookup crate: the directory size          *)
(* distance (theme/directories.rs), the per-installation search            *)
(* (theme/mod.rs), the lookup engine (lib.rs), the result cache           *)
(* (cache.rs), the index file parser (theme/parse.rs) and the id of a      *)
(* packaged application (pwa.rs).                                          *)
(*                                                                         *)
(* A theme installation is a pair <<base, name>>: the directory `name`     *)
(* below the base search path `base`.  An index file is held in parsed     *)
(* form: its directory descriptors in file order and the raw entries of    *)
(* its Inherits value.  A file of the file system is a tuple               *)
(*   <<"theme", path, dir_name, icon_name, ext>>   below an installation   *)
(*   <<"base", base, icon_name, ext>>              directly in a base path *)
(*   <<"abs", p, ext>>                            the absolute path p ext  *)
(* Time is counted in half seconds, so that Duration::as_secs truncates.   *)
(* The lookups work on parsed index files; the parser is modelled on the   *)
(* lines of a file, under SpecParse.                                       *)
(***************************************************************************)
EXTENDS Integers, Naturals, Sequences, FiniteSets, TLC

VARIABLES
    themes,     \* THEMES: theme name -> sequence of Theme (registry, built once)
    index,      \* index file path -> parsed content of that index.theme
    fs,         \* the set of icon files that exist
    cache,      \* CACHE: theme -> ((icon_name, size, scale) -> CacheEntry)
    now,        \* Instant::now(), in ticks
    calls,      \* number of find() calls made so far
    last,       \* record of the most recent find() call
    st          \* position of a find() executed step by step

vars == <<themes, index, fs, cache, now, calls, last, st>>

-----------------------------------------------------------------------------
(* Bounds of the model *)

MaxCalls == 2
MaxTime == 19
MaxDirs == 2
MaxInst == 2
MaxLines == 4
MaxParents == 3
MaxSegments == 3

(* Program constants *)

TicksPerSec == 2
GraceSecs == 5
DefaultScale == 1
DefaultThreshold == 2
CrxIdLen == 32

-----------------------------------------------------------------------------
(* 16-bit signed arithmetic (release build: wrapping) *)

I16(x) == ((x + 32768) % 65536) - 32768

Abs16(x) == IF x < 0 THEN I16(0 - x) ELSE x

-----------------------------------------------------------------------------
(* theme/directories.rs *)

\* Directory as get_all_directories builds it from a section: maxsize and
\* minsize default to size, threshold to 2, scale to 1.
Directory(name, type_, size, scale, minsize, maxsize, threshold) ==
    [name |-> name, type_ |-> type_, size |-> size, scale |-> scale,
     minsize |-> minsize, maxsize |-> maxsize, threshold |-> threshold]

\* A distance whose Threshold band is scaled by the scale of the directory
directory_size_distance_dir_band(d, size, scale) ==
    LET scaled_requested_size == I16(I16(size) * I16(scale)) IN
    IF d.type_ # "Threshold" THEN 0
    ELSE IF scaled_requested_size < I16(I16(d.size - d.threshold) * d.scale)
    THEN I16(I16(d.minsize * d.scale) - scaled_requested_size)
    ELSE IF scaled_requested_size > I16(I16(d.size + d.threshold) * d.scale)
         THEN I16(scaled_requested_size - I16(d.maxsize * d.scale))
         ELSE 0

directory_size_distance(d, size, scale) ==
    LET scaled_requested_size == I16(I16(size) * I16(scale)) IN
    CASE d.type_ = "Fixed" ->
            I16(I16(d.size * d.scale) - scaled_requested_size)
      [] d.type_ = "Scalable" ->
            LET min_scaled_size == I16(d.minsize * d.scale)
                max_scaled_size == I16(d.maxsize * d.scale)
            IN  IF scaled_requested_size < min_scaled_size
                THEN I16(min_scaled_size - scaled_requested_size)
                ELSE IF scaled_requested_size < max_scaled_size
                     THEN I16(scaled_requested_size - max_scaled_size)
                     ELSE 0
      [] OTHER ->
            IF scaled_requested_size < I16(I16(d.size - d.threshold) * I16(scale))
            THEN I16(I16(d.minsize * d.scale) - scaled_requested_size)
            ELSE IF scaled_requested_size > I16(I16(d.size + d.threshold) * I16(scale))
                 THEN I16(scaled_requested_size - I16(d.maxsize * d.scale))
                 ELSE 0

-----------------------------------------------------------------------------
(* theme/mod.rs *)

\* A comparator on the distance alone
SortsBefore_distance_only(a, b, prefer_svg) == a[2] < b[2]

\* A comparator on the distance first and on the kind between equal distances
SortsBefore_distance_first(a, b, prefer_svg) ==
    IF a[2] # b[2] THEN a[2] < b[2]
    ELSE a[3] # b[3] /\ a[3] = prefer_svg

\* The comparator of closest_match_size: TRUE when a sorts strictly before b.
\* Entries are <<dir_name, |distance|, is_scalable>>; FALSE < TRUE for bool.
SortsBefore(a, b, prefer_svg) ==
    LET lt(x, y) == (~x) /\ y IN
    IF a[3] # b[3]
    THEN IF prefer_svg THEN lt(b[3], a[3]) ELSE lt(a[3], b[3])
    ELSE a[2] < b[2]

\* An insertion that puts e before the entries it ties with
RECURSIVE InsertSorted_unstable(_, _, _)
InsertSorted_unstable(sorted, e, prefer_svg) ==
    IF sorted = <<>> THEN <<e>>
    ELSE IF ~SortsBefore(Head(sorted), e, prefer_svg)
         THEN <<e>> \o sorted
         ELSE <<Head(sorted)>> \o InsertSorted_unstable(Tail(sorted), e, prefer_svg)

\* slice::sort_by is stable: e goes after every entry that does not sort
\* strictly after it.
RECURSIVE InsertSorted(_, _, _)
InsertSorted(sorted, e, prefer_svg) ==
    IF sorted = <<>> THEN <<e>>
    ELSE IF SortsBefore(e, Head(sorted), prefer_svg)
         THEN <<e>> \o sorted
         ELSE <<Head(sorted)>> \o InsertSorted(Tail(sorted), e, prefer_svg)

RECURSIVE SortBy(_, _)
SortBy(unsorted, prefer_svg) ==
    IF unsorted = <<>> THEN <<>>
    ELSE InsertSorted(SortBy(SubSeq(unsorted, 1, Len(unsorted) - 1), prefer_svg),
                      unsorted[Len(unsorted)], prefer_svg)

\* The directories in declaration order, not sorted
closest_match_size_unsorted(dirs, size, scale, prefer_svg) ==
    [i \in 1..Len(dirs) |->
        <<dirs[i].name,
          Abs16(directory_size_distance(dirs[i], size, scale)),
          dirs[i].type_ = "Scalable">>]

closest_match_size(dirs, size, scale, prefer_svg) ==
    LET unsorted == [i \in 1..Len(dirs) |->
                        <<dirs[i].name,
                          Abs16(directory_size_distance(dirs[i], size, scale)),
                          dirs[i].type_ = "Scalable">>]
    IN  SortBy(unsorted, prefer_svg)

Extensions(prefer_svg) ==
    IF prefer_svg THEN <<".svg", ".png", ".xpm">> ELSE <<".png", ".svg", ".xpm">>

\* The icon names that are absolute paths.  <<"abs", p, ext>> is the file
\* whose absolute path is p followed by ext.
AbsoluteNames == {"/dir/foo", "/dir/foo.png"}

IsAbsolute(name) == name \in AbsoluteNames

\* The path try_build_icon_path leaves in `path`: PathBuf::push of an
\* absolute name replaces the path, and set_file_name(<name><ext>) then
\* replaces it by <name><ext>; a bare name gives path/<dir_name>/<name><ext>.
BuiltPath(path, dir_name, name, ext) ==
    IF IsAbsolute(name) THEN <<"abs", name, ext>>
    ELSE <<"theme", path, dir_name, name, ext>>

\* The same below a base path, where no directory name is pushed
BuiltBasePath(base, name, ext) ==
    IF IsAbsolute(name) THEN <<"abs", name, ext>>
    ELSE <<"base", base, name, ext>>

\* try_build_icon_path: the built path exists
try_build_icon_path(files, path, dir_name, name, ext) ==
    BuiltPath(path, dir_name, name, ext) \in files

\* The candidates in the order try_fold_icon_path tries them: the extension
\* is the outer loop (find_map), the directory list the inner one (try_fold).
Candidates(dir_names, prefer_svg) ==
    LET exts == Extensions(prefer_svg)
        n == Len(dir_names)
    IN  [k \in 1..(3 * n) |-> <<dir_names[((k - 1) % n) + 1][1],
                                exts[((k - 1) \div n) + 1]>>]

NoIcon == <<"none">>

RECURSIVE FirstExisting(_, _, _, _)
FirstExisting(files, path, name, cands) ==
    IF cands = <<>> THEN NoIcon
    ELSE IF try_build_icon_path(files, path, Head(cands)[1], name, Head(cands)[2])
         THEN BuiltPath(path, Head(cands)[1], name, Head(cands)[2])
         ELSE FirstExisting(files, path, name, Tail(cands))

try_fold_icon_path(files, path, dir_names, name, prefer_svg) ==
    FirstExisting(files, path, name, Candidates(dir_names, prefer_svg))

try_get_icon_closest_size(files, path, dirs, name, size, scale, prefer_svg) ==
    try_fold_icon_path(files, path,
                       closest_match_size(dirs, size, scale, prefer_svg),
                       name, prefer_svg)

-----------------------------------------------------------------------------
(* cache.rs *)

Unknown == <<"Unknown">>
Found(path) == <<"Found", path>>
NotFound(instant) == <<"NotFound", instant>>

EmptyCache == [t \in {} |-> [k \in {} |-> Unknown]]

Cache_clear(theme_map) == EmptyCache

\* icon_path is NoIcon for Option::None
Cache_insert(theme_map, theme, size, scale, icon_name, icon_path, instant) ==
    LET entry == IF icon_path # NoIcon THEN Found(icon_path) ELSE NotFound(instant)
        key == <<icon_name, size, scale>>
        old == IF theme \in DOMAIN theme_map THEN theme_map[theme]
               ELSE [k \in {} |-> Unknown]
        icon_map == [k \in (DOMAIN old) \cup {key} |->
                        IF k = key THEN entry ELSE old[k]]
    IN  [t \in (DOMAIN theme_map) \cup {theme} |->
            IF t = theme THEN icon_map ELSE theme_map[t]]

Cache_get(theme_map, theme, size, scale, icon_name) ==
    IF theme \in DOMAIN theme_map
       /\ <<icon_name, size, scale>> \in DOMAIN theme_map[theme]
    THEN theme_map[theme][<<icon_name, size, scale>>]
    ELSE Unknown

\* A reset that forgets the positive entries with the negative ones
Cache_reset_none_all(theme_map) ==
    [t \in DOMAIN theme_map |-> [k \in DOMAIN theme_map[t] |-> Unknown]]

Cache_reset_none(theme_map) ==
    [t \in DOMAIN theme_map |->
        [k \in DOMAIN theme_map[t] |->
            IF theme_map[t][k][1] = "NotFound" THEN Unknown ELSE theme_map[t][k]]]

-----------------------------------------------------------------------------
(* lib.rs: the lookup engine *)

\* Instant::duration_since(self, earlier): saturates to zero when earlier is
\* later than self.
duration_since(self, earlier) == IF self >= earlier THEN self - earlier ELSE 0

as_secs(duration) == duration \div TicksPerSec

\* lookup_in_theme, lines 311-312: whether a NotFound entry answers the call
NotFoundIsFresh(last_check, instant) ==
    as_secs(duration_since(last_check, instant)) < GraceSecs

NameId(name) ==
    CASE name = "A" -> 1 [] name = "B" -> 2 [] name = "hicolor" -> 3
      [] name = "Cosmic" -> 4 [] name = "gnome" -> 5 [] name = "Yaru" -> 6
      [] OTHER -> 0

\* The DefaultHasher value of theme.path.0; distinct paths of the model get
\* distinct values, in an order unrelated to the order of the paths.
PathHash(path) == ((NameId(path[2]) * 4 + path[1]) * 13) % 37

Contains(seq, x) == \E i \in 1..Len(seq) : seq[i] = x

\* Vec::binary_search + Vec::insert(pos, x) on a sorted vector
SortedInsert(seq, x) ==
    LET pos == Cardinality({i \in 1..Len(seq) : seq[i] < x})
    IN  SubSeq(seq, 1, pos) \o <<x>> \o SubSeq(seq, pos + 1, Len(seq))

Theme(path, idx) == [path |-> path, index |-> idx]

\* Theme::inherits on the parsed index content
inherits(file) ==
    SelectSeq(file.inherits, LAMBDA parent : parent # "hicolor")

\* Theme::try_get_icon: read the index (None when unreadable), then search
try_get_icon(idx, files, theme, name, size, scale, prefer_svg) ==
    IF theme.index \notin DOMAIN idx THEN NoIcon
    ELSE try_get_icon_closest_size(files, theme.path, idx[theme.index].dirs,
                                   name, size, scale, prefer_svg)

\* A fallback chain that leaves hicolor out
FallbackThemes_no_hicolor == <<"Cosmic", "gnome", "Yaru">>

\* The fallback themes of lookup_in_theme, in the order of the or_else chain
FallbackThemes == <<"Cosmic", "hicolor", "gnome", "Yaru">>

BASE_PATHS == <<1, 2>>

Map(seq, Op(_)) == [i \in 1..Len(seq) |-> Op(seq[i])]

\* The base path candidates: extensions outer, BASE_PATHS inner
BaseOps(prefer_svg) ==
    LET exts == Extensions(prefer_svg)
        n == Len(BASE_PATHS)
    IN  [k \in 1..(3 * n) |-> <<"base_path", BASE_PATHS[((k - 1) % n) + 1],
                                 exts[((k - 1) \div n) + 1]>>]

\* A closure that searches the fallback themes before the declared parents
InitialOps_fallbacks_first(icon_themes, prefer_svg) ==
    Map(icon_themes, LAMBDA t : <<"search_theme", t>>)
    \o Map(FallbackThemes, LAMBDA n : <<"search_inherited_theme", n>>)
    \o Map(icon_themes, LAMBDA t : <<"search_theme_inherits", t>>)
    \o BaseOps(prefer_svg)

\* The work of the closure of lookup_in_theme for the resolved icon_themes,
\* as the list of calls still to make; a hit drops what is left.
InitialOps(icon_themes, prefer_svg) ==
    Map(icon_themes, LAMBDA t : <<"search_theme", t>>)
    \o Map(icon_themes, LAMBDA t : <<"search_theme_inherits", t>>)
    \o Map(FallbackThemes, LAMBDA n : <<"search_inherited_theme", n>>)
    \o BaseOps(prefer_svg)

\* A search of a parent that goes on into the parents of the parent, with
\* no record of the themes it has expanded
search_inherited_theme_recursive(reg, theme) ==
    IF theme \in DOMAIN reg
    THEN Map(reg[theme], LAMBDA t : <<"search_theme", t>>)
         \o (IF reg[theme][1].index \in DOMAIN index
             THEN Map(inherits(index[reg[theme][1].index]),
                      LAMBDA parent : <<"search_inherited_theme", parent>>)
             ELSE <<>>)
    ELSE <<>>

\* search_inherited_theme: THEMES.get(theme)?.iter().find_map(search_theme)
search_inherited_theme(reg, theme) ==
    IF theme \in DOMAIN reg
    THEN Map(reg[theme], LAMBDA t : <<"search_theme", t>>)
    ELSE <<>>

\* A traversal that never searches the declared parents
search_theme_inherits_none(idx, theme) == <<>>

\* search_theme_inherits after the visited check: the parents to search
search_theme_inherits(idx, theme) ==
    IF theme.index \notin DOMAIN idx THEN <<>>
    ELSE Map(inherits(idx[theme.index]),
             LAMBDA parent : <<"search_inherited_theme", parent>>)

\* A search_theme without its visited check
NotYetSearched_always(searched_themes, theme_hash) == TRUE

\* search_theme, line 411: the theme has not been searched in this call
NotYetSearched(searched_themes, theme_hash) == ~Contains(searched_themes, theme_hash)

\* One call of the traversal.  s = [todo, searched_themes, search_inherits,
\* icon, log]; q is the LookupBuilder.
Step(reg, idx, files, q, s) ==
    LET op == Head(s.todo)
        rest == Tail(s.todo)
    IN
    CASE op[1] = "search_theme" ->
            LET theme_hash == PathHash(op[2].path) IN
            IF NotYetSearched(s.searched_themes, theme_hash)
            THEN LET icon == try_get_icon(idx, files, op[2], q.name, q.size,
                                          q.scale, q.force_svg)
                 IN  [s EXCEPT !.searched_themes = SortedInsert(@, theme_hash),
                               !.log = Append(@, <<"search", op[2].path>>),
                               !.icon = icon,
                               !.todo = IF icon # NoIcon THEN <<>> ELSE rest]
            ELSE [s EXCEPT !.todo = rest]
      [] op[1] = "search_theme_inherits" ->
            LET theme_hash == PathHash(op[2].path) IN
            IF ~Contains(s.search_inherits, theme_hash)
            THEN [s EXCEPT !.search_inherits = SortedInsert(@, theme_hash),
                           !.log = Append(@, <<"inherits", op[2].path>>),
                           !.todo = search_theme_inherits(idx, op[2]) \o rest]
            ELSE [s EXCEPT !.todo = rest]
      [] op[1] = "search_inherited_theme" ->
            [s EXCEPT !.log = Append(@, <<"registry", op[2]>>),
                      !.todo = search_inherited_theme(reg, op[2]) \o rest]
      [] OTHER ->
            LET path == BuiltBasePath(op[2], q.name, op[3]) IN
            [s EXCEPT !.log = Append(@, <<"base_path", op[2], op[3]>>),
                      !.icon = IF path \in files THEN path ELSE NoIcon,
                      !.todo = IF path \in files THEN <<>> ELSE rest]

RECURSIVE Run(_, _, _, _, _)
Run(reg, idx, files, q, s) ==
    IF s.todo = <<>> THEN s ELSE Run(reg, idx, files, q, Step(reg, idx, files, q, s))

\* A resolution without the or_else on hicolor
ResolveTheme_no_fallback(reg, theme) ==
    IF theme \in DOMAIN reg THEN theme ELSE "none"

\* THEMES.get(self.theme).or_else(|| THEMES.get("hicolor"))
ResolveTheme(reg, theme) ==
    IF theme \in DOMAIN reg THEN theme
    ELSE IF "hicolor" \in DOMAIN reg THEN "hicolor" ELSE "none"

ResolveLog(reg, theme) ==
    IF theme \in DOMAIN reg THEN <<<<"registry", theme>>>>
    ELSE <<<<"registry", theme>>, <<"registry", "hicolor">>>>

StartSearch(reg, q) ==
    [todo |-> InitialOps(reg[ResolveTheme(reg, q.theme)], q.force_svg),
     searched_themes |-> <<>>, search_inherits |-> <<>>,
     icon |-> NoIcon, log |-> ResolveLog(reg, q.theme)]

\* LookupBuilder::store
store(theme_map, q, icon, instant) ==
    Cache_insert(theme_map, q.theme, q.size, q.scale, q.name, icon, instant)

\* lookup_in_theme: the result, the cache afterwards and what was searched
lookup_in_theme(reg, idx, files, theme_map, instant, q) ==
    LET entry == IF q.cache
                 THEN Cache_get(theme_map, q.theme, q.size, q.scale, q.name)
                 ELSE Unknown
    IN
    IF entry[1] = "Found"
    THEN [result |-> entry[2], cache |-> theme_map, log |-> <<>>, cached |-> TRUE]
    ELSE IF entry[1] = "NotFound" /\ NotFoundIsFresh(entry[2], instant)
    THEN [result |-> NoIcon, cache |-> theme_map, log |-> <<>>, cached |-> TRUE]
    ELSE IF ResolveTheme(reg, q.theme) = "none"
    THEN [result |-> NoIcon, cache |-> theme_map,
          log |-> ResolveLog(reg, q.theme), cached |-> FALSE]
    ELSE LET s == Run(reg, idx, files, q, StartSearch(reg, q)) IN
         [result |-> s.icon,
          cache |-> IF q.cache THEN store(theme_map, q, s.icon, instant)
                    ELSE theme_map,
          log |-> s.log, cached |-> FALSE]

\* LookupBuilder::find
find(reg, idx, files, theme_map, instant, q) ==
    IF q.name = ""
    THEN [result |-> NoIcon, cache |-> theme_map, log |-> <<>>, cached |-> FALSE]
    ELSE lookup_in_theme(reg, idx, files, theme_map, instant, q)

-----------------------------------------------------------------------------
(* The worlds the lookups run in *)

D16 == Directory("16x16/apps", "Fixed", 16, DefaultScale, 16, 16, DefaultThreshold)
D24 == Directory("24x24/apps", "Threshold", 24, DefaultScale, 24, 24, DefaultThreshold)
D48 == Directory("48x48/apps", "Fixed", 48, DefaultScale, 48, 48, DefaultThreshold)
D24x2 == Directory("24x24@2/apps", "Fixed", 24, 2, 24, 24, DefaultThreshold)
DScalable == Directory("scalable/apps", "Scalable", 48, DefaultScale, 16, 64, DefaultThreshold)

DirPool == {D16, D24, D48, D24x2, DScalable}

\* The index content of the installations of the engine worlds
EngineDirs == <<D24>>

Range(seq) == {seq[i] : i \in 1..Len(seq)}

SeqsUpTo(S, n) == UNION {[1..k -> S] : k \in 0..n}

Injective(seq) == \A i, j \in 1..Len(seq) : seq[i] = seq[j] => i = j

Query(name, cache_, force_svg, scale, size, theme) ==
    [name |-> name, cache |-> cache_, force_svg |-> force_svg,
     scale |-> scale, size |-> size, theme |-> theme]

\* LookupBuilder::new
DefaultQuery(name) == Query(name, FALSE, FALSE, 1, 24, "hicolor")

IconFile(path, dir, name, ext) == <<"theme", path, dir.name, name, ext>>

\* One theme name as get_all_themes registers it: its installations in
\* registry order (layout: their base paths), every one of them with the
\* index file of the first, which is the fallback index of the later ones;
\* inh: the Inherits entries of that index file; has: the installations that
\* hold a.png; unreadable: the index file cannot be read.
Fragment(name, layout, inh, has, unreadable) ==
    [themes |-> IF layout = <<>> THEN {}
                ELSE {<<name, [i \in 1..Len(layout) |->
                                  Theme(<<layout[i], name>>, <<layout[1], name>>)]>>},
     index |-> IF layout = <<>> \/ unreadable THEN {}
               ELSE {<<<<layout[1], name>>,
                       [dirs |-> EngineDirs, inherits |-> inh]>>},
     fs |-> {IconFile(<<b, name>>, EngineDirs[1], "a", ".png") :
                b \in has \cap Range(layout)}]

\* inhOptions: the Inherits values the index file may hold
Fragments(name, layouts, inhOptions, unreadableOptions) ==
    {Fragment(name, layout, inh, has, unreadable) :
        layout \in layouts,
        inh \in inhOptions,
        has \in SUBSET Range(BASE_PATHS),
        unreadable \in unreadableOptions}

\* The set of <<key, value>> pairs as a function
FnOf(pairs) ==
    [k \in {p[1] : p \in pairs} |-> (CHOOSE p \in pairs : p[1] = k)[2]]

World(frags, base_files) ==
    [themes |-> FnOf(UNION {f.themes : f \in frags}),
     index |-> FnOf(UNION {f.index : f \in frags}),
     fs |-> UNION {f.fs : f \in frags} \cup base_files]

NoCall ==
    [q |-> DefaultQuery(""), result |-> NoIcon, log |-> <<>>, cached |-> FALSE,
     before |-> Unknown, at |-> 0, fs_changed |-> FALSE,
     cache_touched |-> FALSE, repeat |-> FALSE,
     prev_result |-> NoIcon, n |-> 0]

Idle == [pc |-> "idle"]

\* The key of a query in the cache
SameKey(q1, q2) ==
    /\ q1.theme = q2.theme /\ q1.name = q2.name
    /\ q1.size = q2.size /\ q1.scale = q2.scale

-----------------------------------------------------------------------------
(* Actions *)

\* One whole find() call
Find(q) ==
    LET r == find(themes, index, fs, cache, now, q) IN
    /\ calls < MaxCalls
    /\ calls' = calls + 1
    /\ cache' = r.cache
    /\ last' = [q |-> q, result |-> r.result, log |-> r.log, cached |-> r.cached,
                before |-> Cache_get(cache, q.theme, q.size, q.scale, q.name),
                at |-> now, fs_changed |-> FALSE, cache_touched |-> FALSE,
                repeat |-> (last.n > 0 /\ SameKey(last.q, q) /\ last.q.cache
                            /\ q.cache /\ ~last.fs_changed
                            /\ ~last.cache_touched),
                prev_result |-> last.result, n |-> calls + 1]
    /\ UNCHANGED <<themes, index, fs, now, st>>

\* Time passes
Advance(d) ==
    /\ calls < MaxCalls
    /\ now + d <= MaxTime
    /\ now' = now + d
    /\ UNCHANGED <<themes, index, fs, cache, calls, last, st>>

\* LookupBuilder::cache_clear
CacheClear ==
    /\ cache # EmptyCache
    /\ cache' = Cache_clear(cache)
    /\ last' = [last EXCEPT !.cache_touched = TRUE]
    /\ UNCHANGED <<themes, index, fs, now, calls, st>>

\* LookupBuilder::cache_reset_none
CacheResetNone ==
    /\ cache # EmptyCache
    /\ cache' = Cache_reset_none(cache)
    /\ last' = [last EXCEPT !.cache_touched = TRUE]
    /\ UNCHANGED <<themes, index, fs, now, calls, st>>

\* An icon file is installed or removed behind the library's back
InstallFile(f) ==
    /\ calls < MaxCalls
    /\ f \notin fs
    /\ fs' = fs \cup {f}
    /\ last' = [last EXCEPT !.fs_changed = TRUE]
    /\ UNCHANGED <<themes, index, cache, now, calls, st>>

RemoveFile(f) ==
    /\ calls < MaxCalls
    /\ f \in fs
    /\ fs' = fs \ {f}
    /\ last' = [last EXCEPT !.fs_changed = TRUE]
    /\ UNCHANGED <<themes, index, cache, now, calls, st>>

InitWorld(w) ==
    /\ themes = w.themes
    /\ index = w.index
    /\ fs = w.fs
    /\ cache = EmptyCache
    /\ now = 0
    /\ calls = 0
    /\ last = NoCall
    /\ st = Idle

-----------------------------------------------------------------------------
(* Spec: the cache over a sequence of find() calls *)

CacheWorlds ==
    {World({a, h}, {}) :
        a \in Fragments("A", {<<>>, <<1>>}, {<<"B">>}, {FALSE}),
        h \in {Fragment("hicolor", <<>>, <<>>, {}, FALSE),
                Fragment("hicolor", <<1>>, <<>>, {}, FALSE)}}

CacheQueries ==
    {Query("a", TRUE, svg, 1, 24, theme) :
        svg \in BOOLEAN, theme \in {"A", "Z"}}
    \cup {Query("a", FALSE, FALSE, 1, 24, theme) : theme \in {"A", "Z"}}
    \cup {Query("", TRUE, FALSE, 1, 24, "A")}

CacheFiles == {IconFile(<<1, "hicolor">>, EngineDirs[1], "a", ".svg")}

Init == \E w \in CacheWorlds : InitWorld(w)

Next ==
    \/ \E q \in CacheQueries : Find(q)
    \/ \E d \in {9, 10} : Advance(d)
    \/ CacheClear
    \/ CacheResetNone
    \/ \E f \in CacheFiles : InstallFile(f)
    \/ \E f \in CacheFiles : RemoveFile(f)

Spec == Init /\ [][Next]_vars

-----------------------------------------------------------------------------
(* Claims about the cache, under Spec *)

\* The last find() call ran with caching and a non-empty name
CachedCall == last.n > 0 /\ last.q.cache /\ last.q.name # ""

\* C1 (as claimed): a NotFound entry recorded at time T answers a find()
\* with caching only when the call is made before T + 5 s; a call made at
\* or after T + 5 s is not answered from the cache but resolved again.
C1_NegativeEntryExpires ==
    (CachedCall /\ last.before[1] = "NotFound") =>
        IF last.at - last.before[2] < GraceSecs * TicksPerSec
        THEN last.cached /\ last.result = NoIcon /\ last.log = <<>>
        ELSE ~last.cached /\ last.log # <<>>

\* C2 (as claimed): the second of two consecutive find() calls with caching
\* and the same theme, name, size and scale, on an unchanged file system,
\* returns what the first returned and is answered from the cache, with no
\* registry lookup and no file-system search.
C2_SecondCallFromCache ==
    (CachedCall /\ last.repeat) =>
        /\ last.result = last.prev_result
        /\ last.cached
        /\ last.log = <<>>

\* C3 (as claimed): when find() with caching returns for a non-empty name,
\* the entry under (theme, name, size, scale) is Found(p) if it returned
\* Some(p) and NotFound(..) if it returned None, for every registry content.
C3_OutcomeStored ==
    (CachedCall /\ ~last.cache_touched) =>
        LET entry == Cache_get(cache, last.q.theme, last.q.size, last.q.scale,
                               last.q.name)
        IN  IF last.result # NoIcon
            THEN entry = Found(last.result)
            ELSE entry[1] = "NotFound"

\* The entries the cache stores: <<theme, key>> pairs
Stored(theme_map) ==
    UNION {{<<t, k>> : k \in DOMAIN theme_map[t]} : t \in DOMAIN theme_map}

\* C9: reset_none() turns every NotFound entry, whatever its age and theme
\* key, into Unknown and leaves every Found entry with its path.
C9_ResetNone ==
    [][CacheResetNone =>
        /\ Stored(cache') = Stored(cache)
        /\ \A e \in Stored(cache) :
              LET old == cache[e[1]][e[2]]
                  new == Cache_get(cache', e[1], e[2][2], e[2][3], e[2][1])
              IN  /\ old[1] = "NotFound" => new = Unknown
                  /\ old[1] = "Found" => new = old]_vars

\* reset_none() has turned a NotFound entry at least 5 s old into Unknown
\* while a Found entry under another theme key kept its path
C9_Witness ==
    /\ last.cache_touched
    /\ now >= GraceSecs * TicksPerSec
    /\ \E e1, e2 \in Stored(cache) :
          /\ e1[1] # e2[1]
          /\ cache[e1[1]][e1[2]] = Unknown
          /\ cache[e2[1]][e2[2]][1] = "Found"
    /\ last.q.cache /\ last.result # NoIcon /\ last.at >= GraceSecs * TicksPerSec
    /\ ~last.cached

-----------------------------------------------------------------------------
(* SpecTheme: one find() in one installation of hicolor whose index lists   *)
(* up to MaxDirs directories of the pool, with any set of files of "a"      *)

Exts == {".png", ".svg", ".xpm"}

ThemePath == <<1, "hicolor">>

ThemeWorld(dirs, files) ==
    [themes |-> [n \in {"hicolor"} |-> <<Theme(ThemePath, ThemePath)>>],
     index |-> [i \in {ThemePath} |-> [dirs |-> dirs, inherits |-> <<>>]],
     fs |-> {IconFile(ThemePath, e[1], "a", e[2]) : e \in files}]

ThemeQueries ==
    {Query("a", FALSE, svg, scale, size, "hicolor") :
        svg \in BOOLEAN, scale \in {1, 2}, size \in {16, 24, 48}}

InitTheme ==
    \E dirs \in {ds \in SeqsUpTo(DirPool, MaxDirs) : ds # <<>> /\ Injective(ds)} :
        \E files \in SUBSET (Range(dirs) \X Exts) :
            InitWorld(ThemeWorld(dirs, files))

NextTheme == \E q \in ThemeQueries : calls = 0 /\ Find(q)

SpecTheme == InitTheme /\ [][NextTheme]_vars

\* The directories of the index of the installation searched in SpecTheme
ListedDirs == index[ThemePath].dirs

DirOf(dir_name) ==
    CHOOSE d \in Range(ListedDirs) : d.name = dir_name

HoldsIcon(d, name) ==
    \E ext \in Exts : IconFile(ThemePath, d, name, ext) \in fs

\* C4 (as claimed): when a directory of distance 0 for the requested size
\* and scale holds the icon with one of the three extensions, the search
\* in that installation returns a file of a directory of distance 0.
C4_ExactMatchPreferred ==
    (last.n > 0 /\ \E d \in Range(ListedDirs) :
                      /\ directory_size_distance(d, last.q.size, last.q.scale) = 0
                      /\ HoldsIcon(d, last.q.name)) =>
        /\ last.result # NoIcon
        /\ directory_size_distance(DirOf(last.result[3]), last.q.size,
                                   last.q.scale) = 0

-----------------------------------------------------------------------------
(* SpecSearch: one find() without the cache, over registries with duplicate *)
(* installations, inheritance cycles, self-inheritance and every subset of  *)
(* the fallback themes                                                      *)

\* The installations of a theme in discovery order: up to n base paths,
\* the first one base path 1
Layouts(n) == {l \in SeqsUpTo(Range(BASE_PATHS), n) : l # <<>> => l[1] = 1}

FragsA ==
    Fragments("A", Layouts(MaxInst),
              {<<>>, <<"B">>, <<"A">>, <<"hicolor">>}, {FALSE})

\* B: absent, without the icon, with it, or with it and an unreadable index
FragsB ==
    {Fragment("B", <<>>, <<>>, {}, FALSE),
     Fragment("B", <<1>>, <<"A">>, {}, FALSE),
     Fragment("B", <<1>>, <<"A">>, {1}, FALSE),
     Fragment("B", <<1>>, <<"A">>, {1}, TRUE)}

FragsHicolor ==
    Fragments("hicolor", {<<>>, <<1>>, <<1, 2>>}, {<<"B">>}, {FALSE})

FragsCosmic ==
    Fragments("Cosmic", {<<>>, <<1>>}, {<<"Cosmic">>}, {FALSE})

\* gnome and Yaru: neither, or one of them holding the icon
FragsOthers ==
    {{}, {Fragment("gnome", <<1>>, <<>>, {1}, FALSE)},
         {Fragment("Yaru", <<1>>, <<>>, {1}, FALSE)}}

BaseFileOptions == {{}, {<<"base", 2, "a", ".svg">>}}

SearchQueries ==
    {Query("a", FALSE, FALSE, 1, 24, theme) :
        theme \in {"A", "hicolor", "Cosmic", "Z"}}

InitSearch ==
    \E a \in FragsA, b \in FragsB, h \in FragsHicolor, c \in FragsCosmic,
       o \in FragsOthers, base_files \in BaseFileOptions :
        InitWorld(World({a, b, h, c} \cup o, base_files))

NextSearch == \E q \in SearchQueries : calls = 0 /\ Find(q)

SpecSearch == InitSearch /\ [][NextSearch]_vars

-----------------------------------------------------------------------------
(* Claims about the traversal, under SpecSearch *)

Installations(name) == IF name \in DOMAIN themes THEN Range(themes[name]) ELSE {}

Readable(t) == t.index \in DOMAIN index

\* The installation holds the icon in a directory its readable index lists
HoldsName(t, name) ==
    /\ Readable(t)
    /\ \E d \in Range(index[t.index].dirs), ext \in Exts :
          IconFile(t.path, d, name, ext) \in fs

Count(log, event) == Cardinality({i \in 1..Len(log) : log[i] = event})

UnderTheme(result, name) == result[1] = "theme" /\ result[2][2] = name

\* Theme T declares Inherits=P in its index file, T nowhere holds the
\* icon and an installation of P holds it
InheritsCase(T, P, name) ==
    /\ last.n > 0 /\ last.q.theme = T /\ last.q.name = name
    /\ T \in DOMAIN themes /\ P \in DOMAIN themes /\ P # T
    /\ \A t \in Installations(T) :
          Readable(t) /\ index[t.index].inherits = <<P>> /\ ~HoldsName(t, name)
    /\ \E t \in Installations(P) : HoldsName(t, name)

\* C5 (as claimed): if the requested theme T declares Inherits=P, holds the
\* icon in no installation and P holds it in one, find() on T returns the
\* file under P.
C5_ParentFileReturned ==
    \A P \in DOMAIN themes :
        InheritsCase("A", P, "a") => UnderTheme(last.result, P)

\* C5 (amended): as above for every P other than hicolor; hicolor is left
\* out of the Inherits list and reached as a fallback after Cosmic, so for
\* P = hicolor the file under Cosmic is returned when Cosmic holds the icon
\* and the file under hicolor otherwise.
C5_ParentFileReturnedAmended ==
    \A P \in DOMAIN themes :
        InheritsCase("A", P, "a") =>
            IF P = "hicolor" /\ \E t \in Installations("Cosmic") : HoldsName(t, "a")
            THEN UnderTheme(last.result, "Cosmic")
            ELSE UnderTheme(last.result, P)

\* find() on A, which inherits B, returned the file under B
C5_Witness ==
    /\ InheritsCase("A", "B", "a")
    /\ UnderTheme(last.result, "B")
    /\ Count(last.log, <<"inherits", <<1, "A">>>>) = 1

NoRepeat(log, kind) ==
    \A i, j \in 1..Len(log) :
        (log[i][1] = kind /\ log[j][1] = kind /\ log[i][2] = log[j][2]) => i = j

\* C7: in one find() call the directories of each installation are searched
\* at most once and the Inherits list of each installation is expanded at
\* most once.
C7_VisitedAtMostOnce ==
    last.n > 0 => NoRepeat(last.log, "search") /\ NoRepeat(last.log, "inherits")

\* Cosmic was the active theme, its own declared parent and a fallback
\* theme in a call that went through every stage, and was searched once
C7_Witness ==
    /\ last.n > 0 /\ last.q.theme = "Cosmic" /\ "Cosmic" \in DOMAIN themes
    /\ index[<<1, "Cosmic">>].inherits = <<"Cosmic">>
    /\ last.result = NoIcon
    /\ Count(last.log, <<"registry", "Cosmic">>) = 3
    /\ Count(last.log, <<"search", <<1, "Cosmic">>>>) = 1
    /\ Count(last.log, <<"inherits", <<1, "Cosmic">>>>) = 1

\* C8: in a find() call that finds the icon in no theme, with hicolor
\* registered, every installation of hicolor is searched exactly once.
C8_HicolorSearchedOnce ==
    (last.n > 0 /\ last.q.name # "" /\ last.result[1] # "theme"
        /\ "hicolor" \in DOMAIN themes) =>
        \A t \in Installations("hicolor") :
            Count(last.log, <<"search", t.path>>) = 1

\* A missing call on A, whose Inherits names hicolor, searched both
\* installations of hicolor once
C8_Witness ==
    /\ last.n > 0 /\ last.q.theme = "A" /\ "A" \in DOMAIN themes
    /\ last.result[1] # "theme"
    /\ index[<<1, "A">>].inherits = <<"hicolor">>
    /\ Len(themes["A"]) = 1
    /\ "hicolor" \in DOMAIN themes /\ Len(themes["hicolor"]) = 2
    /\ \A t \in Installations("hicolor") : Count(last.log, <<"search", t.path>>) = 1

\* C10: without caching, find() with a theme that is not registered returns
\* what the same query with theme "hicolor" returns.
C10_UnknownThemeAsHicolor ==
    (last.n > 0 /\ ~last.q.cache /\ last.q.theme \notin DOMAIN themes) =>
        last.result = find(themes, index, fs, cache, last.at,
                           [last.q EXCEPT !.theme = "hicolor"]).result

\* A call with the unregistered theme Z returned a file of hicolor
C10_Witness ==
    /\ last.n > 0 /\ ~last.q.cache /\ last.q.theme = "Z"
    /\ "Z" \notin DOMAIN themes
    /\ UnderTheme(last.result, "hicolor")

-----------------------------------------------------------------------------
(* SpecSteps: one find() without the cache executed call by call: each step *)
(* is one search_theme, search_theme_inherits or search_inherited_theme     *)
(* call, or one base path probe                                             *)

StepQueries ==
    {Query("a", FALSE, FALSE, 1, 24, "A"),
     Query("a", FALSE, FALSE, 1, 24, "Z"),
     Query("", FALSE, FALSE, 1, 24, "A")}

FragsStepsHicolor ==
    {Fragment("hicolor", <<>>, <<>>, {}, FALSE),
     Fragment("hicolor", <<1>>, <<"B">>, {}, FALSE),
     Fragment("hicolor", <<1>>, <<"B">>, {1}, FALSE)}

FragsStepsB ==
    {Fragment("B", <<>>, <<>>, {}, FALSE),
     Fragment("B", <<1>>, <<"A">>, {}, FALSE)}

StepsCosmic == Fragment("Cosmic", <<1>>, <<"Cosmic">>, {}, FALSE)

InitSteps ==
    \E a \in FragsA, b \in FragsStepsB, h \in FragsStepsHicolor :
        InitWorld(World({a, b, h, StepsCosmic}, {}))

\* find() is entered: the empty name and the unresolved theme return at once
Begin(q) ==
    /\ st.pc = "idle"
    /\ st' = IF q.name = "" \/ ResolveTheme(themes, q.theme) = "none"
             THEN [pc |-> "return", q |-> q, icon |-> NoIcon]
             ELSE [pc |-> "run", q |-> q,
                   s |-> [StartSearch(themes, q) EXCEPT !.log = <<>>]]
    /\ UNCHANGED <<themes, index, fs, cache, now, calls, last>>

\* The next call of the traversal
StepAction ==
    /\ st.pc = "run"
    /\ st.s.todo # <<>>
    /\ st' = [st EXCEPT !.s = [Step(themes, index, fs, st.q, st.s)
                                  EXCEPT !.log = <<>>]]
    /\ UNCHANGED <<themes, index, fs, cache, now, calls, last>>

\* Nothing is left to try, or a file was found
EndSearch ==
    /\ st.pc = "run"
    /\ st.s.todo = <<>>
    /\ st' = [pc |-> "return", q |-> st.q, icon |-> st.s.icon]
    /\ UNCHANGED <<themes, index, fs, cache, now, calls, last>>

\* find() returns
Return ==
    /\ st.pc = "return"
    /\ st' = [pc |-> "done", q |-> st.q, icon |-> st.icon]
    /\ calls' = calls + 1
    /\ UNCHANGED <<themes, index, fs, cache, now, last>>

NextSteps ==
    \/ \E q \in StepQueries : Begin(q)
    \/ StepAction
    \/ EndSearch
    \/ Return

\* The calling thread runs on: the lookup is synchronous and never waits
SpecSteps == InitSteps /\ [][NextSteps]_vars /\ WF_vars(NextSteps)

\* The stepwise execution returns what find() returns
StepsAgree ==
    st.pc = "done" => st.icon = find(themes, index, fs, cache, now, st.q).result

\* C6: find() terminates for every registry content and Inherits graph,
\* cycles, self-inheritance and duplicate installations included.
C6_FindTerminates == <>(st.pc = "done")

\* find() on A has returned in a registry where A is installed twice under
\* one path and A and B inherit each other
C6_Witness ==
    /\ st.pc = "done" /\ st.q.theme = "A" /\ st.q.name = "a" /\ st.icon = NoIcon
    /\ "A" \in DOMAIN themes /\ "B" \in DOMAIN themes
    /\ themes["A"] = <<Theme(<<1, "A">>, <<1, "A">>), Theme(<<1, "A">>, <<1, "A">>)>>
    /\ index[<<1, "A">>].inherits = <<"B">>
    /\ index[<<1, "B">>].inherits = <<"A">>

\* find() on A has returned in a registry where A inherits itself
C6_WitnessSelf ==
    /\ st.pc = "done" /\ st.q.theme = "A" /\ st.q.name = "a"
    /\ "A" \in DOMAIN themes
    /\ index[<<1, "A">>].inherits = <<"A">>

-----------------------------------------------------------------------------
(* SpecBase: one find() without the cache where the base paths and absolute *)
(* icon names matter: every set of <name><ext> files below the base paths   *)
(* and in /dir, with the theme and hicolor registered or not                *)

BaseFiles == {<<"base", b, "a", e>> : b \in Range(BASE_PATHS), e \in Exts}

AbsFiles ==
    {<<"abs", "/dir/foo", ".png">>, <<"abs", "/dir/foo", ".svg">>,
     <<"abs", "/dir/foo.png", ".png">>}

FragsBaseA ==
    {Fragment("A", <<>>, <<>>, {}, FALSE),
     Fragment("A", <<1>>, <<>>, {}, FALSE),
     Fragment("A", <<1>>, <<>>, {1}, FALSE)}

FragsBaseHicolor ==
    {Fragment("hicolor", <<>>, <<>>, {}, FALSE),
     Fragment("hicolor", <<1>>, <<>>, {}, FALSE)}

BaseQueries ==
    {Query(name, FALSE, svg, 1, 24, "A") :
        name \in {"a"} \cup AbsoluteNames, svg \in BOOLEAN}

InitBase ==
    \E a \in FragsBaseA, h \in FragsBaseHicolor :
        \E files \in SUBSET BaseFiles, abs \in SUBSET AbsFiles :
            InitWorld(World({a, h}, files \cup abs))

NextBase == \E q \in BaseQueries : calls = 0 /\ Find(q)

SpecBase == InitBase /\ [][NextBase]_vars

AllInstallations == UNION {Range(themes[n]) : n \in DOMAIN themes}

\* Position of an element in a sequence without repetitions
IndexOf(seq, x) == CHOOSE i \in 1..Len(seq) : seq[i] = x

\* The base path files <name><ext>, and the one that is first by extension
\* preference and, within the extension, by base path
BaseHits(name) == {f \in fs : f[1] = "base" /\ f[3] = name}

FirstBaseHit(name, prefer_svg) ==
    LET exts == Extensions(prefer_svg)
        Before(f, g) ==
            \/ IndexOf(exts, f[4]) < IndexOf(exts, g[4])
            \/ /\ f[4] = g[4]
               /\ IndexOf(BASE_PATHS, f[2]) <= IndexOf(BASE_PATHS, g[2])
    IN  CHOOSE f \in BaseHits(name) : \A g \in BaseHits(name) : Before(f, g)

\* C11: if no theme yields the icon and some base path holds <name><ext>,
\* find() returns the base path file of the first extension in preference
\* order and, within it, of the first base path, for every registry content.
C11_BasePathFallback ==
    (/\ last.n > 0 /\ last.q.name = "a"
     /\ \A t \in AllInstallations : ~HoldsName(t, "a")
     /\ BaseHits("a") # {}) =>
        last.result = FirstBaseHit("a", last.q.force_svg)

\* The file stem of an absolute icon name joined to its parent directory
StemPath(name) == IF name = "/dir/foo.png" THEN "/dir/foo" ELSE name

\* The files <stem><ext> in the parent directory of the name
StemHits(name) == {f \in fs : f[1] = "abs" /\ f[2] = StemPath(name)}

\* C12: if the icon name is a path such as /dir/foo.png and the theme and
\* base path searches miss, find() returns the file <stem><ext> of the
\* parent directory with the first extension in preference order.
C12_PathNameRetry ==
    (/\ last.n > 0 /\ last.q.name = "/dir/foo.png"
     /\ \A e \in Exts : <<"abs", "/dir/foo.png", e>> \notin fs
     /\ StemHits("/dir/foo.png") # {}) =>
        /\ last.result \in StemHits("/dir/foo.png")
        /\ \A f \in StemHits("/dir/foo.png") :
              IndexOf(Extensions(last.q.force_svg), last.result[3])
                  <= IndexOf(Extensions(last.q.force_svg), f[3])

-----------------------------------------------------------------------------
(* theme/parse.rs: the index file parser on bytes.  A line is a sequence of *)
(* one-character strings; a file is its lines and whether the last line     *)
(* ends with a newline.  A parser result carries `fault`: the parse         *)
(* panicked (slice index out of range)                                      *)

IconThemeName == <<"I", "c", "o", "n", " ", "T", "h", "e", "m", "e">>
KeySize == <<"S", "i", "z", "e">>
KeyScale == <<"S", "c", "a", "l", "e">>
KeyType == <<"T", "y", "p", "e">>
KeyMaxSize == <<"M", "a", "x", "S", "i", "z", "e">>
KeyMinSize == <<"M", "i", "n", "S", "i", "z", "e">>
KeyThreshold == <<"T", "h", "r", "e", "s", "h", "o", "l", "d">>
KeyInherits == <<"I", "n", "h", "e", "r", "i", "t", "s">>
NameHicolor == <<"h", "i", "c", "o", "l", "o", "r">>

\* memchr_iter(b'\n', file): one position for each newline, so the bytes
\* after the last newline are never a line
NewlineEndedLines(file) ==
    IF file.terminated THEN file.lines
    ELSE SubSeq(file.lines, 1, Len(file.lines) - 1)

IsSpace(c) == c \in {" ", "\t", "\r"}

RECURSIVE trim_start(_)
trim_start(line) ==
    IF line # <<>> /\ IsSpace(Head(line)) THEN trim_start(Tail(line)) ELSE line

RECURSIVE trim_end(_)
trim_end(line) ==
    IF line # <<>> /\ IsSpace(line[Len(line)])
    THEN trim_end(SubSeq(line, 1, Len(line) - 1)) ELSE line

trim_ascii(line) == trim_end(trim_start(line))

\* memchr(c, line): the first position of c, 0 for None
memchr(c, line) ==
    IF \E i \in 1..Len(line) : line[i] = c
    THEN CHOOSE i \in 1..Len(line) :
            line[i] = c /\ \A j \in 1..(i - 1) : line[j] # c
    ELSE 0

\* line.split_at_unchecked(pos), then &value[1..]
SplitProperty(line) ==
    LET pos == memchr("=", line) IN
    <<SubSeq(line, 1, pos - 1), SubSeq(line, pos + 1, Len(line))>>

\* &line[1..line.len() - 1] panics for a line of one byte
HeaderFaults(line) == Len(line) = 1

HeaderName(line) == SubSeq(line, 2, Len(line) - 1)

PanicEvent == <<"Panic">>

\* sections(): the events in the order the iterator yields them; a panic is
\* the last event.  The first header is yielded at once and again as the
\* pending section of the next call; a later header yields EndSection and,
\* when its name is not empty, Section on the next call.
RECURSIVE SectionsFrom(_, _, _, _)
SectionsFrom(lines, i, table_found, acc) ==
    IF i > Len(lines) THEN Append(acc, <<"EndSection">>)
    ELSE LET line == trim_ascii(lines[i]) IN
         IF line = <<>> THEN SectionsFrom(lines, i + 1, table_found, acc)
         ELSE IF line[1] = "["
         THEN IF HeaderFaults(line) THEN Append(acc, PanicEvent)
              ELSE LET section == HeaderName(line)
                       pending == IF section = <<>> THEN <<>>
                                  ELSE <<<<"Section", section>>>>
                       first == IF table_found THEN <<"EndSection">>
                                ELSE <<"Section", section>>
                   IN  SectionsFrom(lines, i + 1, TRUE,
                                    Append(acc, first) \o pending)
         ELSE IF memchr("=", line) # 0
         THEN SectionsFrom(lines, i + 1, table_found,
                  Append(acc, <<"Property", SplitProperty(line)[1],
                                SplitProperty(line)[2]>>))
         ELSE SectionsFrom(lines, i + 1, table_found, acc)

sections(file) == SectionsFrom(NewlineEndedLines(file), 1, FALSE, <<>>)

Digits == <<"0", "1", "2", "3", "4", "5", "6", "7", "8", "9">>

IsDigit(c) == \E i \in 1..10 : Digits[i] = c

DigitValue(c) == (CHOOSE i \in 1..10 : Digits[i] = c) - 1

RECURSIVE DecimalValue(_, _)
DecimalValue(digits, acc) ==
    IF digits = <<>> THEN acc
    ELSE DecimalValue(Tail(digits), acc * 10 + DigitValue(Head(digits)))

None == [ok |-> FALSE, val |-> 0]
Some(v) == [ok |-> TRUE, val |-> v]

\* btoi::btoi::<i16>(value).ok(): an optional sign and at least one digit,
\* nothing else, and a value that fits 16 bits
btoi(value) ==
    LET signed == value # <<>> /\ Head(value) \in {"+", "-"}
        digits == IF signed THEN Tail(value) ELSE value
        magnitude == DecimalValue(digits, 0)
        v == IF signed /\ Head(value) = "-" THEN 0 - magnitude ELSE magnitude
    IN  IF digits = <<>> \/ \E i \in 1..Len(digits) : ~IsDigit(digits[i])
        THEN None
        ELSE IF v < -32768 \/ v > 32767 THEN None ELSE Some(v)

\* DirectoryType::from indexes byte 0 of the value: it panics on an empty one
DirectoryType_faults(value) == value = <<>>

DirectoryType_from(value) ==
    CASE value[1] = "F" -> "Fixed"
      [] value[1] = "S" -> "Scalable"
      [] OTHER -> "Threshold"

\* The locals of one call of the closure of get_all_directories
FreshSection ==
    [name |-> <<>>, size |-> None, max_size |-> None, min_size |-> None,
     threshold |-> None, scale |-> None, dtype |-> "Threshold"]

unwrap_or(opt, default) == IF opt.ok THEN opt.val ELSE default

SetProperty(sec, key, value) ==
    CASE key = KeySize -> [sec EXCEPT !.size = btoi(value)]
      [] key = KeyScale -> [sec EXCEPT !.scale = btoi(value)]
      [] key = KeyType -> [sec EXCEPT !.dtype = DirectoryType_from(value)]
      [] key = KeyMaxSize -> [sec EXCEPT !.max_size = btoi(value)]
      [] key = KeyMinSize -> [sec EXCEPT !.min_size = btoi(value)]
      [] key = KeyThreshold -> [sec EXCEPT !.threshold = btoi(value)]
      [] OTHER -> sec

Skipped(sec) == sec.name = <<>> \/ sec.name = IconThemeName

\* get_all_directories as its consumers see it: the directories yielded
\* until the closure first returns None (`size.take()?` on a section
\* without a size, or the end of the events), or a panic on the way
RECURSIVE DirectoriesFrom(_, _, _, _)
DirectoriesFrom(events, k, sec, acc) ==
    IF k > Len(events) THEN [dirs |-> acc, fault |-> FALSE]
    ELSE LET ev == events[k] IN
         CASE ev[1] = "Panic" -> [dirs |-> acc, fault |-> TRUE]
           [] ev[1] = "Property" ->
                IF Skipped(sec) THEN DirectoriesFrom(events, k + 1, sec, acc)
                ELSE IF ev[2] = KeyType /\ DirectoryType_faults(ev[3])
                THEN [dirs |-> acc, fault |-> TRUE]
                ELSE DirectoriesFrom(events, k + 1,
                                     SetProperty(sec, ev[2], ev[3]), acc)
           [] ev[1] = "Section" ->
                DirectoriesFrom(events, k + 1,
                                [FreshSection EXCEPT !.name = ev[2]], acc)
           [] OTHER ->
                IF Skipped(sec) THEN DirectoriesFrom(events, k + 1, sec, acc)
                ELSE IF ~sec.size.ok THEN [dirs |-> acc, fault |-> FALSE]
                ELSE DirectoriesFrom(events, k + 1, FreshSection,
                        Append(acc,
                               Directory(sec.name, sec.dtype, sec.size.val,
                                         unwrap_or(sec.scale, DefaultScale),
                                         unwrap_or(sec.min_size, sec.size.val),
                                         unwrap_or(sec.max_size, sec.size.val),
                                         unwrap_or(sec.threshold,
                                                   DefaultThreshold))))

get_all_directories(file) == DirectoriesFrom(sections(file), 1, FreshSection, <<>>)

\* icon_theme_section(): the key/value pairs in the order the iterator
\* yields them; a panic is the last element.  Every line with '=' is
\* yielded until the header after [Icon Theme]; found_table only decides
\* where the iterator ends.
RECURSIVE IconThemeFrom(_, _, _, _)
IconThemeFrom(lines, i, found_table, acc) ==
    IF i > Len(lines) THEN acc
    ELSE LET line == trim_ascii(lines[i])
             header == line # <<>> /\ line[1] = "["
         IN
         IF line = <<>> THEN IconThemeFrom(lines, i + 1, found_table, acc)
         ELSE IF header /\ found_table THEN acc
         ELSE IF header /\ HeaderFaults(line) THEN Append(acc, PanicEvent)
         ELSE LET found == IF header THEN HeaderName(line) = IconThemeName
                           ELSE found_table
                  out == IF memchr("=", line) # 0
                         THEN Append(acc, SplitProperty(line)) ELSE acc
              IN  IconThemeFrom(lines, i + 1, found, out)

icon_theme_section(file) == IconThemeFrom(NewlineEndedLines(file), 1, FALSE, <<>>)

\* value.split(|c| c == b','): the pieces between the commas, empty ones too
RECURSIVE SplitComma(_, _, _)
SplitComma(value, piece, acc) ==
    IF value = <<>> THEN Append(acc, piece)
    ELSE IF Head(value) = ","
         THEN SplitComma(Tail(value), <<>>, Append(acc, piece))
         ELSE SplitComma(Tail(value), Append(piece, Head(value)), acc)

\* inherits() with hicolor left in the list
parse_inherits_keep_hicolor(file) ==
    LET pairs == icon_theme_section(file)
        hits == {i \in 1..Len(pairs) : Len(pairs[i]) = 2 /\ pairs[i][1] = KeyInherits}
        first == CHOOSE i \in hits : \A j \in hits : i <= j
    IN  IF hits = {} THEN [parents |-> <<>>, fault |-> FALSE]
        ELSE [parents |-> SplitComma(pairs[first][2], <<>>, <<>>), fault |-> FALSE]

\* Theme::inherits on the bytes of the index: the first pair with the key
\* Inherits, split at the commas, without the pieces equal to hicolor
parse_inherits(file) ==
    LET pairs == icon_theme_section(file)
        IsHit(i) == Len(pairs[i]) = 1 \/ pairs[i][1] = KeyInherits
        hits == {i \in 1..Len(pairs) : IsHit(i)}
        first == CHOOSE i \in hits : \A j \in hits : i <= j
    IN  IF hits = {} THEN [parents |-> <<>>, fault |-> FALSE]
        ELSE IF Len(pairs[first]) = 1 THEN [parents |-> <<>>, fault |-> TRUE]
        ELSE [parents |-> SelectSeq(SplitComma(pairs[first][2], <<>>, <<>>),
                                    LAMBDA parent : parent # NameHicolor),
              fault |-> FALSE]

-----------------------------------------------------------------------------
(* SpecParse: one index file is parsed.  The file is any sequence of up to  *)
(* MaxLines lines of LinePool, with or without a final newline, or an       *)
(* [Icon Theme] section whose Inherits value joins up to MaxParents names   *)

LineIconTheme == <<"[", "I", "c", "o", "n", " ", "T", "h", "e", "m", "e", "]">>
LineA == <<"[", "a", "]">>
LineB == <<"[", "b", "]">>
LineSize == <<" ", "S", "i", "z", "e", "=", "1", "6">>
LineTypeScalable == <<"T", "y", "p", "e", "=", "S">>
LineTypeEmpty == <<"T", "y", "p", "e", "=">>
LineBracket == <<"[">>
LineInheritsX == <<"I", "n", "h", "e", "r", "i", "t", "s", "=", "x">>
LineInheritsY == <<"I", "n", "h", "e", "r", "i", "t", "s", "=", "y">>

LinePool ==
    {LineIconTheme, LineA, LineB, LineSize, LineTypeScalable, LineTypeEmpty,
     LineBracket, LineInheritsX, LineInheritsY}

IndexFile(lines, terminated) == [lines |-> lines, terminated |-> terminated]

ParentNames == {<<"a">>, <<"b">>, NameHicolor, <<>>}

RECURSIVE JoinComma(_)
JoinComma(names) ==
    IF Len(names) = 1 THEN names[1]
    ELSE names[1] \o <<",">> \o JoinComma(Tail(names))

InheritsLine(parents) == KeyInherits \o <<"=">> \o JoinComma(parents)

InitParse ==
    /\ themes = <<>> /\ index = <<>> /\ fs = {}
    /\ cache = EmptyCache /\ now = 0 /\ calls = 0 /\ last = NoCall
    /\ \/ \E lines \in SeqsUpTo(LinePool, MaxLines), terminated \in BOOLEAN :
            st = [pc |-> "file", file |-> IndexFile(lines, terminated),
                  parents |-> <<>>, made |-> "lines"]
       \/ \E parents \in SeqsUpTo(ParentNames, MaxParents) :
            /\ parents # <<>>
            /\ st = [pc |-> "file",
                     file |-> IndexFile(<<LineIconTheme, InheritsLine(parents)>>,
                                        TRUE),
                     parents |-> parents, made |-> "inherits"]

\* Theme::try_get_icon and search_theme_inherits parse the bytes of the index
ParseIndex ==
    /\ st.pc = "file"
    /\ st' = [pc |-> "parsed", file |-> st.file, parents |-> st.parents,
              made |-> st.made,
              dirs |-> get_all_directories(st.file),
              inh |-> parse_inherits(st.file)]
    /\ UNCHANGED <<themes, index, fs, cache, now, calls, last>>

NextParse == ParseIndex

SpecParse == InitParse /\ [][NextParse]_vars

Parsed == st.pc = "parsed"

\* C13: for every byte content of an index file, parsing the directories
\* and the Inherits list completes without a fault.
C13_ParseNeverFaults == Parsed => ~st.dirs.fault /\ ~st.inh.fault

\* What the index file declares, read off its lines: the headers, the
\* section a line belongs to and the keys of a section
IsHeader(line) == trim_ascii(line) # <<>> /\ trim_ascii(line)[1] = "["

Headers(file) == {i \in 1..Len(file.lines) : IsHeader(file.lines[i])}

SectionOf(file, j) ==
    IF \E i \in Headers(file) : i < j
    THEN CHOOSE i \in Headers(file) :
            i < j /\ \A k \in Headers(file) : k < j => k <= i
    ELSE 0

KeyOf(line) == SplitProperty(trim_ascii(line))[1]
ValueOf(line) == SplitProperty(trim_ascii(line))[2]

HasKey(line, key) ==
    ~IsHeader(line) /\ memchr("=", trim_ascii(line)) # 0 /\ KeyOf(line) = key

CarriesSize(file, i) ==
    \E j \in 1..Len(file.lines) :
        /\ SectionOf(file, j) = i
        /\ HasKey(file.lines[j], KeySize)
        /\ btoi(ValueOf(file.lines[j])).ok

DeclaredName(file, i) == HeaderName(trim_ascii(file.lines[i]))

\* The names of the sections other than [Icon Theme] that carry a
\* parseable Size, in file order
SizedSections(file) ==
    LET keep == SelectSeq([i \in 1..Len(file.lines) |-> i],
                          LAMBDA i : /\ i \in Headers(file)
                                     /\ DeclaredName(file, i) # IconThemeName
                                     /\ CarriesSize(file, i))
    IN  [k \in 1..Len(keep) |-> DeclaredName(file, keep[k])]

YieldedNames(dirs) == [k \in 1..Len(dirs) |-> dirs[k].name]

WellFormedLines(file) ==
    \A i \in 1..Len(file.lines) :
        file.lines[i] \notin {LineBracket, LineTypeEmpty}

\* C14: get_all_directories yields, in file order, exactly the sections
\* other than [Icon Theme] that carry a parseable Size; a section without
\* Size is omitted and the well-formed sections before and after it are
\* still yielded.
C14_SizedSectionsYielded ==
    (Parsed /\ st.made = "lines" /\ WellFormedLines(st.file)) =>
        YieldedNames(st.dirs.dirs) = SizedSections(st.file)

\* The lines of the [Icon Theme] section that set Inherits
IconThemeInherits(file) ==
    {j \in 1..Len(file.lines) :
        /\ SectionOf(file, j) # 0
        /\ DeclaredName(file, SectionOf(file, j)) = IconThemeName
        /\ \A k \in Headers(file) :
              (k < j /\ DeclaredName(file, k) = IconThemeName)
                  => k = SectionOf(file, j)
        /\ HasKey(file.lines[j], KeyInherits)}

\* The parents the first Inherits key of the [Icon Theme] section declares
DeclaredParents(file) ==
    IF IconThemeInherits(file) = {} THEN <<>>
    ELSE LET j == CHOOSE j \in IconThemeInherits(file) :
                    \A k \in IconThemeInherits(file) : j <= k
         IN  <<ValueOf(file.lines[j])>>

\* C15: inherits() uses only the Inherits key inside the [Icon Theme]
\* section; an Inherits key of another section or before the [Icon Theme]
\* header is never used.
C15_InheritsOfIconThemeOnly ==
    (Parsed /\ st.made = "lines" /\ WellFormedLines(st.file)) =>
        st.inh.parents = DeclaredParents(st.file)

\* C16: inherits() yields the comma-separated parent names of the Inherits
\* value in declaration order without the entries equal to hicolor; for
\* Inherits=hicolor it yields nothing.
C16_ParentsWithoutHicolor ==
    (Parsed /\ st.made = "inherits") =>
        /\ ~st.inh.fault
        /\ st.inh.parents = SelectSeq(st.parents, LAMBDA n : n # NameHicolor)

\* Inherits=a,hicolor,b was parsed to a, b
C16_Witness ==
    /\ Parsed /\ st.made = "inherits"
    /\ st.parents = <<<<"a">>, NameHicolor, <<"b">>>>
    /\ st.inh.parents = <<<<"a">>, <<"b">>>>

-----------------------------------------------------------------------------
(* SpecRank: one find() in one installation of hicolor whose index lists up *)
(* to MaxDirs directories of RankPool, with any set of a.png and a.svg      *)
(* files, for sizes that tie directories (24 between 16 and 32, 40 between  *)
(* 16 and the scalable directory) and the size 92 between 48 and 96         *)

D32 == Directory("32x32/apps", "Fixed", 32, DefaultScale, 32, 32, DefaultThreshold)
D96 == Directory("96x96/apps", "Fixed", 96, DefaultScale, 96, 96, DefaultThreshold)

RankPool == {D16, D32, D48, D96, DScalable}

RankQueries ==
    {Query("a", FALSE, svg, scale, size, "hicolor") :
        svg \in BOOLEAN, scale \in {1, 2}, size \in {24, 40, 92}}

InitRank ==
    \E dirs \in {ds \in SeqsUpTo(RankPool, MaxDirs) : ds # <<>> /\ Injective(ds)} :
        \E files \in SUBSET (Range(dirs) \X {".png", ".svg"}) :
            InitWorld(ThemeWorld(dirs, files))

NextRank == \E q \in RankQueries : calls = 0 /\ Find(q)

SpecRank == InitRank /\ [][NextRank]_vars

\* The candidate order of the call: <<dir_name, |distance|, is_scalable>>
CandidateOrder ==
    closest_match_size(ListedDirs, last.q.size, last.q.scale, last.q.force_svg)

AbsDistance(d) ==
    Abs16(directory_size_distance(d, last.q.size, last.q.scale))

IsScalable(d) == d.type_ = "Scalable"

\* C17: in the candidate order, with force_svg a Scalable directory comes
\* before a non-scalable one of equal |distance|; without force_svg the
\* non-scalable one comes first.
C17_ScalableTieOrder ==
    last.n > 0 =>
        \A i, j \in 1..Len(CandidateOrder) :
            (/\ CandidateOrder[i][3] /\ ~CandidateOrder[j][3]
             /\ CandidateOrder[i][2] = CandidateOrder[j][2]) =>
                IF last.q.force_svg THEN i < j ELSE j < i

\* 16x16 is declared before the scalable directory, both are 24 away from
\* the size 40 and hold a.svg: with force_svg the scalable file is returned
C17_Witness ==
    /\ last.n > 0 /\ last.q.force_svg /\ last.q.size = 40 /\ last.q.scale = 1
    /\ ListedDirs = <<D16, DScalable>>
    /\ AbsDistance(D16) = AbsDistance(DScalable)
    /\ IconFile(ThemePath, D16, "a", ".svg") \in fs
    /\ last.result = IconFile(ThemePath, DScalable, "a", ".svg")

\* The non-scalable directories that hold <name>.png
PngDirs == {d \in Range(ListedDirs) :
               ~IsScalable(d) /\ IconFile(ThemePath, d, last.q.name, ".png") \in fs}

\* C18: without force_svg, among the non-scalable directories that hold
\* <name>.png the file of the one with the smallest |distance| is returned.
C18_ClosestPngReturned ==
    (last.n > 0 /\ ~last.q.force_svg /\ PngDirs # {}) =>
        \E d \in PngDirs :
            /\ last.result = IconFile(ThemePath, d, last.q.name, ".png")
            /\ \A e \in PngDirs : AbsDistance(d) <= AbsDistance(e)

\* Size 92 against the fixed directories 48 and 96 returned the 96 file
C18_Witness ==
    /\ last.n > 0 /\ ~last.q.force_svg /\ last.q.size = 92 /\ last.q.scale = 1
    /\ ListedDirs = <<D48, D96>>
    /\ PngDirs = {D48, D96}
    /\ last.result = IconFile(ThemePath, D96, "a", ".png")

Position(d) == CHOOSE i \in 1..Len(ListedDirs) : ListedDirs[i] = d

\* C19: the returned file is never in the later declared of two directories
\* of the same kind and the same |distance| that both hold the icon with
\* the extension of the returned file.
C19_TieKeepsDeclarationOrder ==
    (last.n > 0 /\ last.result # NoIcon) =>
        \A e \in Range(ListedDirs) :
            (/\ IsScalable(e) = IsScalable(DirOf(last.result[3]))
             /\ AbsDistance(e) = AbsDistance(DirOf(last.result[3]))
             /\ IconFile(ThemePath, e, last.q.name, last.result[5]) \in fs) =>
                Position(DirOf(last.result[3])) <= Position(e)

\* Size 24 against the fixed directories 16 and 32, declared in this order
\* and both holding a.png, returned the 16 file
C19_Witness ==
    /\ last.n > 0 /\ ~last.q.force_svg /\ last.q.size = 24 /\ last.q.scale = 1
    /\ ListedDirs = <<D16, D32>>
    /\ AbsDistance(D16) = AbsDistance(D32)
    /\ IconFile(ThemePath, D32, "a", ".png") \in fs
    /\ last.result = IconFile(ThemePath, D16, "a", ".png")

-----------------------------------------------------------------------------
(* pwa.rs: the id of a packaged application in an icon name.  A name is a   *)
(* sequence of one-character strings                                        *)

CrxAlphabet ==
    {"a", "b", "c", "d", "e", "f", "g", "h", "i", "j", "k", "l", "m", "n",
     "o", "p"}

AsciiLowercase ==
    CrxAlphabet \cup {"q", "r", "s", "t", "u", "v", "w", "x", "y", "z"}

NoId == [ok |-> FALSE, val |-> <<>>]
SomeId(id) == [ok |-> TRUE, val |-> id]

\* A check that accepts longer candidates too
is_crx_id_at_least(candidate) ==
    /\ Len(candidate) >= CrxIdLen
    /\ \A i \in 1..Len(candidate) : candidate[i] \in CrxAlphabet

\* is_crx_id and is_crx_bytes
is_crx_id(candidate) ==
    /\ Len(candidate) = CrxIdLen
    /\ \A i \in 1..Len(candidate) : candidate[i] \in CrxAlphabet

HasPrefix(value, prefix) ==
    Len(value) >= Len(prefix) /\ SubSeq(value, 1, Len(prefix)) = prefix

\* value.strip_prefix(prefix), when HasPrefix
StripPrefix(value, prefix) == SubSeq(value, Len(prefix) + 1, Len(value))

\* rest.split(delimiter).next(): the piece before the first delimiter
RECURSIVE FirstPiece(_, _)
FirstPiece(rest, delimiters) ==
    IF rest = <<>> \/ Head(rest) \in delimiters THEN <<>>
    ELSE <<Head(rest)>> \o FirstPiece(Tail(rest), delimiters)

\* rest.split(|c| !c.is_ascii_lowercase()).next()
RECURSIVE FirstLowercasePiece(_)
FirstLowercasePiece(rest) ==
    IF rest = <<>> \/ Head(rest) \notin AsciiLowercase THEN <<>>
    ELSE <<Head(rest)>> \o FirstLowercasePiece(Tail(rest))

PrefixChrome == <<"c", "h", "r", "o", "m", "e", "-">>
PrefixCrx == <<"c", "r", "x", "_">>

\* value.as_bytes().windows(32): the first window that is an id, 0 for none
FirstCrxWindow(value) ==
    LET starts == {i \in 1..(Len(value) - CrxIdLen + 1) :
                      is_crx_id(SubSeq(value, i, i + CrxIdLen - 1))}
    IN  IF starts = {} THEN 0
        ELSE CHOOSE i \in starts : \A j \in starts : i <= j

extract_crx_id(value) ==
    LET first == FirstPiece(StripPrefix(value, PrefixChrome), {"-", "_"})
        token == FirstLowercasePiece(StripPrefix(value, PrefixCrx))
        w == FirstCrxWindow(value)
    IN  IF HasPrefix(value, PrefixChrome) /\ is_crx_id(first) THEN SomeId(first)
        ELSE IF HasPrefix(value, PrefixCrx) /\ is_crx_id(token) THEN SomeId(token)
        ELSE IF is_crx_id(value) THEN SomeId(value)
        ELSE IF w # 0 THEN SomeId(SubSeq(value, w, w + CrxIdLen - 1))
        ELSE NoId

-----------------------------------------------------------------------------
(* SpecCrx: extract_crx_id on the names made of up to MaxSegments segments: *)
(* runs of 31, 32 and 33 id letters, the two prefixes, separators and       *)
(* letters outside the id alphabet                                          *)

RunLetters == <<"a", "b", "p">>

IdRun(k) == [i \in 1..k |-> RunLetters[((i - 1) % 3) + 1]]

SegmentPool ==
    {IdRun(CrxIdLen - 1), IdRun(CrxIdLen), IdRun(CrxIdLen + 1), <<"c">>,
     PrefixChrome, PrefixCrx, <<"-">>, <<"_">>, <<"q">>,
     <<"-", "D", "e", "f", "a", "u", "l", "t">>}

RECURSIVE Concat(_)
Concat(segments) ==
    IF segments = <<>> THEN <<>> ELSE Head(segments) \o Concat(Tail(segments))

InitCrx ==
    /\ themes = <<>> /\ index = <<>> /\ fs = {}
    /\ cache = EmptyCache /\ now = 0 /\ calls = 0 /\ last = NoCall
    /\ \E segments \in SeqsUpTo(SegmentPool, MaxSegments) :
          st = [pc |-> "value", value |-> Concat(segments)]

ExtractCrxId ==
    /\ st.pc = "value"
    /\ st' = [pc |-> "extracted", value |-> st.value,
              id |-> extract_crx_id(st.value)]
    /\ UNCHANGED <<themes, index, fs, cache, now, calls, last>>

NextCrx == ExtractCrxId

SpecCrx == InitCrx /\ [][NextCrx]_vars

\* The starts of the windows of CrxIdLen bytes that are all in 'a'..'p'
IdWindows(value) ==
    {i \in 1..(Len(value) - CrxIdLen + 1) :
        \A k \in i..(i + CrxIdLen - 1) : value[k] \in CrxAlphabet}

\* C20: extract_crx_id(v) is Some(id) exactly when v contains 32 contiguous
\* bytes in 'a'..'p', and id is the leftmost such window.
C20_LeftmostIdWindow ==
    st.pc = "extracted" =>
        /\ st.id.ok <=> IdWindows(st.value) # {}
        /\ st.id.ok =>
              \E i \in IdWindows(st.value) :
                  /\ \A j \in IdWindows(st.value) : i <= j
                  /\ st.id.val = SubSeq(st.value, i, i + CrxIdLen - 1)

\* chrome-<id>-Default gave <id>
C20_Witness ==
    /\ st.pc = "extracted"
    /\ st.value = PrefixChrome \o IdRun(CrxIdLen) \o <<"-", "D", "e", "f", "a", "u", "l", "t">>
    /\ st.id = SomeId(IdRun(CrxIdLen))

-----------------------------------------------------------------------------
(* pwa.rs: the resolver of packaged-application icons.  A file of a search  *)
(* location is <<"pwa", base, size_dir, file_name>>, the file                *)
(* <base>/<size_dir>/apps/<file_name>; size_dir and file_name are sequences  *)
(* of one-character strings                                                  *)

PWA_THEME_DARK == "pwa-hicolor-dark"
PWA_THEME_LIGHT == "pwa-hicolor-light"

\* format!("{}", n)
RECURSIVE Decimal(_)
Decimal(n) ==
    IF n < 10 THEN <<Digits[n + 1]>>
    ELSE Decimal(n \div 10) \o <<Digits[(n % 10) + 1]>>

\* format!("{}x{}", n, n)
SizeName(n) == Decimal(n) \o <<"x">> \o Decimal(n)

SIZES ==
    <<SizeName(512), SizeName(256), SizeName(192), SizeName(128),
      SizeName(96), SizeName(64), SizeName(48), SizeName(32), SizeName(24),
      SizeName(22), SizeName(16)>>

\* sizes.iter().position(pred), 0 for None
FirstPosition(sizes, prefix) ==
    LET hits == {i \in 1..Len(sizes) : HasPrefix(sizes[i], prefix)}
    IN  IF hits = {} THEN 0 ELSE CHOOSE i \in hits : \A j \in hits : i <= j

ordered_sizes(requested_px) ==
    LET pos == FirstPosition(SIZES, SizeName(requested_px))
    IN  IF pos = 0 THEN SIZES
        ELSE <<SIZES[pos]>> \o SubSeq(SIZES, 1, pos - 1)
                 \o SubSeq(SIZES, pos + 1, Len(SIZES))

PwaFile(base, size_dir, file_name) == <<"pwa", base, size_dir, file_name>>

UpperLetters ==
    <<"A", "B", "C", "D", "E", "F", "G", "H", "I", "J", "K", "L", "M", "N",
      "O", "P", "Q", "R", "S", "T", "U", "V", "W", "X", "Y", "Z">>

LowerLetters ==
    <<"a", "b", "c", "d", "e", "f", "g", "h", "i", "j", "k", "l", "m", "n",
      "o", "p", "q", "r", "s", "t", "u", "v", "w", "x", "y", "z">>

LowerOf ==
    [c \in Range(UpperLetters) |->
        LowerLetters[CHOOSE k \in 1..Len(UpperLetters) : UpperLetters[k] = c]]

to_ascii_lowercase(s) ==
    [i \in 1..Len(s) |-> IF s[i] \in DOMAIN LowerOf THEN LowerOf[s[i]] ELSE s[i]]

eq_ignore_ascii_case(a, b) == to_ascii_lowercase(a) = to_ascii_lowercase(b)

\* str::contains
str_contains(s, pat) ==
    \E i \in 1..(Len(s) - Len(pat) + 1) : SubSeq(s, i, i + Len(pat) - 1) = pat

\* Path::extension: the part after the last dot, none when there is no dot
\* or the only dot begins the name
extension(file_name) ==
    LET dots == {i \in 1..Len(file_name) : file_name[i] = "."}
        dot == CHOOSE i \in dots : \A j \in dots : j <= i
    IN  IF dots = {} \/ dot = 1 THEN None
        ELSE Some(SubSeq(file_name, dot + 1, Len(file_name)))

ExtPng == <<"p", "n", "g">>
ExtSvg == <<"s", "v", "g">>
TagDark == <<"d", "a", "r", "k">>
TagLight == <<"l", "i", "g", "h", "t">>
TagMaskable == <<"m", "a", "s", "k", "a", "b", "l", "e">>
TagMonochrome == <<"m", "o", "n", "o", "c", "h", "r", "o", "m", "e">>

ext_score(file_name) ==
    LET ext == extension(file_name)
    IN  IF ~ext.ok THEN 0
        ELSE IF eq_ignore_ascii_case(ext.val, ExtPng) THEN 2
        ELSE IF eq_ignore_ascii_case(ext.val, ExtSvg) THEN 1
        ELSE 0

theme_score(file_name, prefer_dark) ==
    LET lower == to_ascii_lowercase(file_name)
        is_dark_tag == str_contains(lower, TagDark)
        is_light_tag == str_contains(lower, TagLight)
    IN  IF prefer_dark
        THEN IF is_dark_tag THEN 2 ELSE IF is_light_tag THEN 0 ELSE 1
        ELSE IF is_light_tag THEN 2 ELSE IF is_dark_tag THEN 0 ELSE 1

mask_score(file_name) ==
    LET lower == to_ascii_lowercase(file_name)
    IN  IF str_contains(lower, TagMaskable) THEN 2
        ELSE IF str_contains(lower, TagMonochrome) THEN 0
        ELSE 1

score(file_name, prefer_dark) ==
    theme_score(file_name, prefer_dark) * 100 + mask_score(file_name) * 10
        + ext_score(file_name)

\* The bases of default_hicolor_paths, in order
PwaBaseDirs == <<1, 2>>

\* for base in base_dirs { for size in &sizes { ... } }
ProbeOrder(base_dirs, sizes) ==
    [i \in 1..(Len(base_dirs) * Len(sizes)) |->
        <<base_dirs[((i - 1) \div Len(sizes)) + 1],
          sizes[((i - 1) % Len(sizes)) + 1]>>]

\* read_dir(<base>/<size_dir>/apps): the entries in the order the system
\* lists them, listing being that order over all files
read_dir(listing, base, size_dir) ==
    SelectSeq(listing, LAMBDA f : f[2] = base /\ f[3] = size_dir)

\* The entries of the second pass in the order they are met
RECURSIVE Encountered(_, _)
Encountered(listing, probes) ==
    IF probes = <<>> THEN <<>>
    ELSE read_dir(listing, Head(probes)[1], Head(probes)[2])
             \o Encountered(listing, Tail(probes))

\* Whether the second pass scores the entry
Scored(f, crx) == str_contains(f[4], crx) /\ ext_score(f[4]) # 0

\* A scan in which a later entry of equal score replaces the best
RECURSIVE BestOf_last_wins(_, _, _, _)
BestOf_last_wins(entries, crx, prefer_dark, best) ==
    IF entries = <<>> THEN best
    ELSE LET f == Head(entries)
             s == score(f[4], prefer_dark)
         IN  BestOf_last_wins(Tail(entries), crx, prefer_dark,
                 IF Scored(f, crx) /\ (~best.ok \/ s >= best.val[2])
                 THEN Some(<<f, s>>) ELSE best)

\* best: Option<(PathBuf, i32)> over the entries
RECURSIVE BestOf(_, _, _, _)
BestOf(entries, crx, prefer_dark, best) ==
    IF entries = <<>> THEN best
    ELSE LET f == Head(entries)
             s == score(f[4], prefer_dark)
         IN  BestOf(Tail(entries), crx, prefer_dark,
                 IF Scored(f, crx) /\ (~best.ok \/ s > best.val[2])
                 THEN Some(<<f, s>>) ELSE best)

\* base.join(size).join("apps").join(format!("{name}.png"))
ExactCandidate(probe, name) ==
    PwaFile(probe[1], probe[2], name \o <<".">> \o ExtPng)

\* A first pass that never hits
FirstExact_never(files, probes, name) == 0

\* Pass 1: the first probe whose <name>.png exists, 0 for none
FirstExact(files, probes, name) ==
    LET hits == {i \in 1..Len(probes) : ExactCandidate(probes[i], name) \in files}
    IN  IF hits = {} THEN 0 ELSE CHOOSE i \in hits : \A j \in hits : i <= j

\* Lines 44-48: Found and NotFound end the call, whatever the age of the entry
PwaCacheAnswers(entry) == entry[1] \in {"Found", "NotFound"}

\* Result, cache after the call and how the result was obtained; q holds the
\* arguments name, requested_px, prefer_dark and use_cache
lookup_chromium_pwa_icon_with_paths(q, base_dirs, listing, theme_map, instant) ==
    LET name == q.name
        requested_px == q.requested_px
        prefer_dark == q.prefer_dark
        use_cache == q.use_cache
        crx == extract_crx_id(name)
        theme_key == IF prefer_dark THEN PWA_THEME_DARK ELSE PWA_THEME_LIGHT
        entry == IF use_cache THEN Cache_get(theme_map, theme_key, requested_px, 1, name)
                 ELSE Unknown
        sizes == ordered_sizes(requested_px)
        probes == ProbeOrder(base_dirs, sizes)
        exact == FirstExact(Range(listing), probes, name)
        best == BestOf(Encountered(listing, probes), crx.val, prefer_dark, None)
        found == IF exact # 0 THEN ExactCandidate(probes[exact], name)
                 ELSE IF best.ok THEN best.val[1]
                 ELSE NoIcon
    IN  IF ~crx.ok
        THEN [result |-> NoIcon, cache |-> theme_map, how |-> "declined"]
        ELSE IF PwaCacheAnswers(entry)
        THEN [result |-> IF entry[1] = "Found" THEN entry[2] ELSE NoIcon,
              cache |-> theme_map, how |-> "cache"]
        ELSE [result |-> found,
              cache |-> IF use_cache
                        THEN Cache_insert(theme_map, theme_key, requested_px, 1,
                                          name, found, instant)
                        ELSE theme_map,
              how |-> IF exact # 0 THEN "exact"
                      ELSE IF best.ok THEN "scored" ELSE "none"]

-----------------------------------------------------------------------------
(* Calls of the packaged-application resolver *)

PwaQuery(name, requested_px, prefer_dark, use_cache) ==
    [name |-> name, requested_px |-> requested_px,
     prefer_dark |-> prefer_dark, use_cache |-> use_cache]

PwaNoCall ==
    [q |-> PwaQuery(<<>>, 0, FALSE, FALSE), listing |-> <<>>,
     result |-> NoIcon, how |-> "declined", before |-> Unknown, at |-> 0,
     n |-> 0, fs_changed |-> FALSE, cache_touched |-> FALSE]

\* The orders in which the system may list the files
Listings(files) ==
    {l \in [1..Cardinality(files) -> files] : Injective(l)}

PwaThemeKey(q) == IF q.prefer_dark THEN PWA_THEME_DARK ELSE PWA_THEME_LIGHT

\* One whole lookup_chromium_pwa_icon call
LookupPwa(q) ==
    \E listing \in Listings(fs) :
        LET r == lookup_chromium_pwa_icon_with_paths(q, PwaBaseDirs, listing,
                                                     cache, now) IN
        /\ calls < MaxCalls
        /\ calls' = calls + 1
        /\ cache' = r.cache
        /\ last' = [q |-> q, listing |-> listing, result |-> r.result,
                    how |-> r.how,
                    before |-> Cache_get(cache, PwaThemeKey(q),
                                         q.requested_px, 1, q.name),
                    at |-> now, n |-> calls + 1, fs_changed |-> FALSE,
                    cache_touched |-> FALSE]
        /\ UNCHANGED <<themes, index, fs, now, st>>

-----------------------------------------------------------------------------
(* SpecPwaCache: cached and uncached resolver calls for a name that carries *)
(* an id and one that does not, while time passes and files are installed   *)

PwaId == IdRun(CrxIdLen)

NameChrome == PrefixChrome \o PwaId \o <<"-", "D", "e", "f", "a", "u", "l", "t">>

NameExample == <<"e", "x">>

ExactChrome == PwaFile(1, SizeName(64), NameChrome \o <<".">> \o ExtPng)

ExactExample == PwaFile(1, SizeName(64), NameExample \o <<".">> \o ExtPng)

MaskableChrome ==
    PwaFile(1, SizeName(64),
            PrefixChrome \o PwaId \o <<"-">> \o TagMaskable \o <<".">> \o ExtPng)

PwaCacheFiles == {ExactChrome, ExactExample, MaskableChrome}

PwaCacheQueries ==
    {PwaQuery(name, 64, FALSE, use_cache) :
        name \in {NameChrome, NameExample}, use_cache \in BOOLEAN}
    \cup {PwaQuery(NameChrome, 64, TRUE, TRUE)}

InitPwaCache ==
    /\ themes = <<>> /\ index = <<>>
    /\ fs \in SUBSET PwaCacheFiles
    /\ cache = EmptyCache /\ now = 0 /\ calls = 0 /\ last = PwaNoCall
    /\ st = Idle

NextPwaCache ==
    \/ \E q \in PwaCacheQueries : LookupPwa(q)
    \/ \E d \in {9, 10} : Advance(d)
    \/ InstallFile(ExactChrome)

SpecPwaCache == InitPwaCache /\ [][NextPwaCache]_vars

\* C21: a call with use_cache that finds a NotFound entry recorded GraceSecs
\* or more ago does not answer from the cache: it scans the search locations
\* again.
C21_PwaNegativeEntryExpires ==
    (/\ last.n > 0 /\ last.q.use_cache
     /\ last.before[1] = "NotFound"
     /\ as_secs(duration_since(last.at, last.before[2])) >= GraceSecs)
        => last.how # "cache"

\* The files <base>/<size>/apps/<name>.png of the search locations and the
\* standard sizes
ExactNameFiles(files, name) ==
    {f \in files :
        /\ f[2] \in Range(PwaBaseDirs) /\ f[3] \in Range(SIZES)
        /\ f[4] = name \o <<".">> \o ExtPng}

\* C23: when an exact-name file exists under <base>/<size>/apps for some
\* search location and standard size, the resolver returns an exact-name
\* file and never a file chosen by the id-scoring scan.
C23_ExactNameFirst ==
    (last.n > 0 /\ ExactNameFiles(Range(last.listing), last.q.name) # {})
        => /\ last.result \in ExactNameFiles(Range(last.listing), last.q.name)
           /\ last.how # "scored"

\* C23, amended: the same for a name that carries an id and a call that is
\* not answered from the cache (use_cache off, or no Found or NotFound entry
\* under the key): the file comes from the first pass.
C23_ExactNameFirstAmended ==
    (/\ last.n > 0
     /\ ExactNameFiles(Range(last.listing), last.q.name) # {}
     /\ IdWindows(last.q.name) # {}
     /\ (~last.q.use_cache \/ last.before = Unknown))
        => /\ last.result \in ExactNameFiles(Range(last.listing), last.q.name)
           /\ last.how = "exact"

\* The exact-name file was returned although a file with the id and a higher
\* score lay in the same directory
C23_Witness ==
    /\ last.n > 0 /\ last.q.name = NameChrome
    /\ last.q.use_cache /\ last.before = Unknown
    /\ {ExactChrome, MaskableChrome} \subseteq Range(last.listing)
    /\ last.result = ExactChrome

-----------------------------------------------------------------------------
(* SpecSizes: ordered_sizes on every requested size up to MaxPx *)

MaxPx == 600

StandardPx == <<512, 256, 192, 128, 96, 64, 48, 32, 24, 22, 16>>

InitSizes ==
    /\ themes = <<>> /\ index = <<>> /\ fs = {}
    /\ cache = EmptyCache /\ now = 0 /\ calls = 0 /\ last = NoCall
    /\ \E r \in 0..MaxPx : st = [pc |-> "requested", requested_px |-> r]

OrderedSizes ==
    /\ st.pc = "requested"
    /\ st' = [pc |-> "ordered", requested_px |-> st.requested_px,
              sizes |-> ordered_sizes(st.requested_px)]
    /\ UNCHANGED <<themes, index, fs, cache, now, calls, last>>

NextSizes == OrderedSizes

SpecSizes == InitSizes /\ [][NextSizes]_vars

\* The standard sizes other than r, descending
RemainingSizes(r) ==
    Map(SelectSeq(StandardPx, LAMBDA n : n # r), SizeName)

\* C22: ordered_sizes(r) lists the size directory of r first, for every r,
\* followed by the remaining standard sizes 512, 256, 192, 128, 96, 64, 48,
\* 32, 24, 22, 16 in descending order, without duplicates.
C22_RequestedSizeFirst ==
    st.pc = "ordered" =>
        /\ st.sizes = <<SizeName(st.requested_px)>> \o RemainingSizes(st.requested_px)
        /\ Injective(st.sizes)

-----------------------------------------------------------------------------
(* SpecPwa: one uncached resolver call over up to MaxFiles files whose names *)
(* carry the id or not, the tags in either case and the extensions png, svg  *)
(* and xpm, in a directory of each of the two search locations               *)

MaxFiles == 2

PwaFileNames ==
    {PrefixChrome \o PwaId \o <<"-">> \o TagDark \o <<".">> \o ExtSvg,
     PrefixChrome \o PwaId \o <<"-">> \o TagMaskable \o <<"-">> \o TagLight
         \o <<".">> \o ExtPng,
     PwaId \o <<".">> \o ExtPng,
     PrefixCrx \o PwaId \o <<".">> \o ExtPng,
     PwaId \o <<"-", "D", "a", "r", "k", ".", "P", "N", "G">>,
     PwaId \o <<".", "x", "p", "m">>,
     PwaId \o <<"-">> \o TagMonochrome \o <<".">> \o ExtPng,
     TagDark \o <<".">> \o ExtPng}

PwaPlaces == {<<1, SizeName(512)>>, <<2, SizeName(64)>>}

PwaFiles == {PwaFile(p[1], p[2], n) : p \in PwaPlaces, n \in PwaFileNames}

PwaQueries ==
    {PwaQuery(NameChrome, 64, prefer_dark, FALSE) : prefer_dark \in BOOLEAN}
    \cup {PwaQuery(NameChrome, 512, FALSE, FALSE)}

InitPwa ==
    /\ themes = <<>> /\ index = <<>>
    /\ fs \in {Range(files) : files \in SeqsUpTo(PwaFiles, MaxFiles)}
    /\ cache = EmptyCache /\ now = 0 /\ calls = MaxCalls - 1
    /\ last = PwaNoCall /\ st = Idle

NextPwa == \E q \in PwaQueries : LookupPwa(q)

SpecPwa == InitPwa /\ [][NextPwa]_vars

\* The files the scan may return: in a directory of a search location and a
\* standard size, the id of the name in the file name, extension png or svg
IdCandidates(files, name) ==
    LET w == CHOOSE i \in IdWindows(name) : \A j \in IdWindows(name) : i <= j
        id == SubSeq(name, w, w + CrxIdLen - 1)
    IN  {f \in files :
            /\ f[2] \in Range(PwaBaseDirs) /\ f[3] \in Range(SIZES)
            /\ str_contains(f[4], id)
            /\ extension(f[4]).ok
            /\ to_ascii_lowercase(extension(f[4]).val) \in {ExtPng, ExtSvg}}

\* f outranks g: a better match of the preference, then of the maskable and
\* monochrome tags, then of the extension
Outranks(f, g, prefer_dark) ==
    LET tf == theme_score(f[4], prefer_dark)
        tg == theme_score(g[4], prefer_dark)
        mf == mask_score(f[4])
        mg == mask_score(g[4])
    IN  \/ tf > tg
        \/ tf = tg /\ mf > mg
        \/ tf = tg /\ mf = mg /\ ext_score(f[4]) > ext_score(g[4])

\* The place of a file in the order in which the scan meets the files
EncounterIndex(f) ==
    LET met == Encountered(last.listing,
                   ProbeOrder(PwaBaseDirs, ordered_sizes(last.q.requested_px)))
    IN  CHOOSE i \in 1..Len(met) : met[i] = f

ScanCase ==
    /\ last.n > 0 /\ IdWindows(last.q.name) # {}
    /\ ExactNameFiles(Range(last.listing), last.q.name) = {}
    /\ (~last.q.use_cache \/ last.before = Unknown)

-----------------------------------------------------------------------------
(* SpecConc: cache.rs under concurrent callers.  Each of MaxThreads threads  *)
(* runs get, insert, clear and reset_none; an operation locks the mutex,     *)
(* runs the statements of its body one at a time and unlocks when the guard  *)
(* is dropped.  cache is the map inside the mutex; last keeps, beside it,    *)
(* the map as it is after the operations in the order of their locking, the  *)
(* entry that order gives each get, and the entries written by inserts       *)

MaxThreads == 2

Threads == 1..MaxThreads

ConcKeys == {<<"X", "a">>, <<"X", "b">>, <<"Y", "a">>}

ConcOps ==
    {[kind |-> "get", theme |-> k[1], name |-> k[2], found |-> FALSE] :
        k \in ConcKeys}
    \cup {[kind |-> "insert", theme |-> k[1], name |-> k[2], found |-> b] :
             k \in ConcKeys, b \in BOOLEAN}
    \cup {[kind |-> kind, theme |-> "", name |-> "", found |-> FALSE] :
             kind \in {"clear", "reset_none"}}

\* (icon_name, size, scale) of an operation
ConcKey(op) == <<op.name, 24, 1>>

\* icon_path of the insert of thread t, NoIcon for None
ConcPath(t, op) == IF op.found THEN <<"path", t, op.name>> ELSE NoIcon

\* Maps left by earlier inserts (thread 0, instant 0)
ConcCaches ==
    {EmptyCache,
     Cache_insert(EmptyCache, "X", 24, 1, "a", <<"path", 0, "a">>, 0),
     Cache_insert(Cache_insert(EmptyCache, "X", 24, 1, "a", NoIcon, 0),
                  "X", 24, 1, "b", <<"path", 0, "b">>, 0),
     Cache_insert(Cache_insert(EmptyCache, "X", 24, 1, "a", NoIcon, 0),
                  "Y", 24, 1, "a", NoIcon, 0)}

\* The entries of a map as <<theme, key, entry>>
Entries(theme_map) ==
    UNION {{<<t, k, theme_map[t][k]>> : k \in DOMAIN theme_map[t]} :
              t \in DOMAIN theme_map}

\* The whole operation on a map
ApplyOp(theme_map, t, op, instant) ==
    CASE op.kind = "insert" ->
             Cache_insert(theme_map, op.theme, 24, 1, op.name, ConcPath(t, op),
                          instant)
      [] op.kind = "clear" -> Cache_clear(theme_map)
      [] op.kind = "reset_none" -> Cache_reset_none(theme_map)
      [] OTHER -> theme_map

NoOp == [kind |-> "none", theme |-> "", name |-> "", found |-> FALSE]

InitConc ==
    /\ themes = <<>> /\ index = <<>> /\ fs = {}
    /\ cache \in ConcCaches
    /\ now = 1 /\ calls = 0
    /\ last = [abs |-> cache, expect |-> [t \in Threads |-> Unknown],
               written |-> Entries(cache)]
    /\ st = [lock |-> 0, pc |-> [t \in Threads |-> "idle"],
             op |-> [t \in Threads |-> NoOp],
             entry |-> [t \in Threads |-> Unknown],
             ret |-> [t \in Threads |-> Unknown]]

\* A mutex that lets every caller in
MutexAvailable_always(lock) == TRUE

\* self.0.lock(): the caller waits while another thread holds the mutex
MutexAvailable(lock) == lock = 0

\* A thread calls an operation and gets the lock
Acquire(t, op) ==
    /\ st.pc[t] = "idle" /\ calls < MaxCalls
    /\ MutexAvailable(st.lock)
    /\ calls' = calls + 1
    /\ st' = [st EXCEPT !.lock = t, !.pc[t] = "locked", !.op[t] = op]
    /\ last' = [abs |-> ApplyOp(last.abs, t, op, now),
                expect |-> [last.expect EXCEPT ![t] =
                               Cache_get(last.abs, op.theme, 24, 1, op.name)],
                written |-> IF op.kind = "insert"
                            THEN last.written \cup
                                 {<<op.theme, ConcKey(op),
                                    IF op.found THEN Found(ConcPath(t, op))
                                    ELSE NotFound(now)>>}
                            ELSE last.written]
    /\ UNCHANGED <<themes, index, fs, cache, now>>

\* get, lines 57-65
GetBody(t) ==
    /\ st.pc[t] = "locked" /\ st.op[t].kind = "get"
    /\ st' = [st EXCEPT !.pc[t] = "unlock",
                        !.ret[t] = Cache_get(cache, st.op[t].theme, 24, 1,
                                             st.op[t].name)]
    /\ UNCHANGED <<themes, index, fs, cache, now, calls, last>>

\* insert, lines 36-44: the entry, and the match on theme_map.get_mut(theme)
InsertEntry(t) ==
    /\ st.pc[t] = "locked" /\ st.op[t].kind = "insert"
    /\ st' = [st EXCEPT !.entry[t] = IF st.op[t].found
                                     THEN Found(ConcPath(t, st.op[t]))
                                     ELSE NotFound(now),
                        !.pc[t] = IF st.op[t].theme \in DOMAIN cache
                                  THEN "insert_icon" ELSE "insert_theme"]
    /\ UNCHANGED <<themes, index, fs, cache, now, calls, last>>

\* insert, lines 45-47: icon_map.insert
InsertIcon(t) ==
    LET theme == st.op[t].theme
        old == IF theme \in DOMAIN cache THEN cache[theme]
               ELSE [k \in {} |-> Unknown]
        icon_map == [k \in (DOMAIN old) \cup {ConcKey(st.op[t])} |->
                        IF k = ConcKey(st.op[t]) THEN st.entry[t] ELSE old[k]]
    IN  /\ st.pc[t] = "insert_icon"
        /\ cache' = [x \in (DOMAIN cache) \cup {theme} |->
                        IF x = theme THEN icon_map ELSE cache[x]]
        /\ st' = [st EXCEPT !.pc[t] = "unlock"]
        /\ UNCHANGED <<themes, index, fs, now, calls, last>>

\* insert, lines 48-52: a new icon_map, theme_map.insert
InsertTheme(t) ==
    LET theme == st.op[t].theme
        icon_map == [k \in {ConcKey(st.op[t])} |-> st.entry[t]]
    IN  /\ st.pc[t] = "insert_theme"
        /\ cache' = [x \in (DOMAIN cache) \cup {theme} |->
                        IF x = theme THEN icon_map ELSE cache[x]]
        /\ st' = [st EXCEPT !.pc[t] = "unlock"]
        /\ UNCHANGED <<themes, index, fs, now, calls, last>>

\* The order of the strings of this specification as BTreeMap keys
StrOrder(s) == CASE s \in {"X", "a"} -> 1 [] OTHER -> 2

\* clear, line 25
ClearBody(t) ==
    /\ st.pc[t] = "locked" /\ st.op[t].kind = "clear"
    /\ cache' = EmptyCache
    /\ st' = [st EXCEPT !.pc[t] = "unlock"]
    /\ UNCHANGED <<themes, index, fs, now, calls, last>>

\* reset_none, lines 70-76: one NotFound entry of the iteration
ResetEntry(t) ==
    /\ st.pc[t] = "locked" /\ st.op[t].kind = "reset_none"
    /\ \E e \in Entries(cache) :
          /\ e[3][1] = "NotFound"
          /\ \A o \in Entries(cache) :
                o[3][1] = "NotFound" =>
                    (StrOrder(e[1]) < StrOrder(o[1])
                     \/ (e[1] = o[1] /\ StrOrder(e[2][1]) <= StrOrder(o[2][1])))
          /\ cache' = [cache EXCEPT ![e[1]][e[2]] = Unknown]
    /\ UNCHANGED <<themes, index, fs, now, calls, last, st>>

\* reset_none: the iteration ends
ResetEnd(t) ==
    /\ st.pc[t] = "locked" /\ st.op[t].kind = "reset_none"
    /\ \A e \in Entries(cache) : e[3][1] # "NotFound"
    /\ st' = [st EXCEPT !.pc[t] = "unlock"]
    /\ UNCHANGED <<themes, index, fs, cache, now, calls, last>>

\* The guard is dropped and the operation returns
Release(t) ==
    /\ st.pc[t] = "unlock"
    /\ st' = [st EXCEPT !.lock = 0, !.pc[t] = "idle"]
    /\ UNCHANGED <<themes, index, fs, cache, now, calls, last>>

NextConc ==
    \/ \E t \in Threads, op \in ConcOps : Acquire(t, op)
    \/ \E t \in Threads : GetBody(t)
    \/ \E t \in Threads : InsertEntry(t)
    \/ \E t \in Threads : InsertIcon(t)
    \/ \E t \in Threads : InsertTheme(t)
    \/ \E t \in Threads : ClearBody(t)
    \/ \E t \in Threads : ResetEntry(t)
    \/ \E t \in Threads : ResetEnd(t)
    \/ \E t \in Threads : Release(t)

SpecConc == InitConc /\ [][NextConc]_vars

\* A get of thread t has returned
GetReturned(t) == st.pc[t] = "idle" /\ st.op[t].kind = "get"

\* C25: get, insert, clear and reset_none run by concurrent callers are
\* atomic: a get returns Unknown or the entry written by one insert for
\* exactly its key, namely the entry the operations give when each takes
\* effect whole at its locking, and no caller finds the map with an
\* operation partially applied.
C25_AtomicCacheOps ==
    /\ \A t \in Threads :
          GetReturned(t) =>
              /\ st.ret[t] = last.expect[t]
              /\ \/ st.ret[t] = Unknown
                 \/ <<st.op[t].theme, ConcKey(st.op[t]), st.ret[t]>> \in last.written
    /\ (\A t \in Threads : st.pc[t] = "idle") => cache = last.abs

\* A get returned the path that the insert of another thread wrote
C25_Witness ==
    \E t \in Threads, u \in Threads :
        /\ u # t /\ GetReturned(t)
        /\ st.ret[t] = Found(<<"path", u, st.op[t].name>>)

-----------------------------------------------------------------------------
(* SpecChain: one find() on theme A, where A inherits B, B inherits C or     *)
(* nothing, hicolor is registered, every index lists a directory of the      *)
(* requested size and a larger one, and up to MaxFiles files of the icon lie *)
(* in these directories                                                      *)

ChainDirs == <<D24, D48>>

ChainThemes == <<"A", "B", "C", "hicolor">>

ChainFiles ==
    {IconFile(<<1, t>>, d, "a", ext) :
        t \in Range(ChainThemes), d \in Range(ChainDirs), ext \in {".png", ".svg"}}

ChainWorld(inheritsB, files) ==
    [themes |-> [t \in Range(ChainThemes) |-> <<Theme(<<1, t>>, <<1, t>>)>>],
     index |-> [p \in {<<1, t>> : t \in Range(ChainThemes)} |->
                   [dirs |-> ChainDirs,
                    inherits |-> CASE p[2] = "A" -> <<"B">>
                                   [] p[2] = "B" -> inheritsB
                                   [] OTHER -> <<>>]],
     fs |-> files]

ChainQueries ==
    {Query("a", FALSE, force_svg, 1, 24, "A") : force_svg \in BOOLEAN}

InitChain ==
    \E inheritsB \in {<<>>, <<"C">>}, files \in SeqsUpTo(ChainFiles, MaxFiles) :
        InitWorld(ChainWorld(inheritsB, Range(files)))

NextChain == \E q \in ChainQueries : calls = 0 /\ Find(q)

SpecChain == InitChain /\ [][NextChain]_vars

\* The directory of a file returned from a theme
ChainDirOf(result) ==
    CHOOSE d \in Range(ChainDirs) : d.name = result[3]

\* The installation holds the icon in a directory of distance 0 for the query
HoldsExact(t, q) ==
    \E d \in Range(index[t.index].dirs), ext \in Exts :
        /\ directory_size_distance(d, q.size, q.scale) = 0
        /\ IconFile(t.path, d, q.name, ext) \in fs

\* C26: a file of a directory whose distance for the requested size and
\* scale is not 0 is returned only when no directory of distance 0 holds the
\* icon in the active theme, in its inherited themes and in the fallback
\* themes.
C26_ClosestOnlyAfterExact ==
    (/\ last.n > 0 /\ last.result[1] = "theme"
     /\ directory_size_distance(ChainDirOf(last.result), last.q.size,
                                last.q.scale) # 0)
        => \A name \in {"A", "B"} \cup Range(FallbackThemes) :
              \A t \in Installations(name) : ~HoldsExact(t, last.q)

\* The candidates of one installation, all extensions of a directory before
\* the next directory
DirectoryMajor(dir_names, prefer_svg) ==
    LET exts == Extensions(prefer_svg)
    IN  [k \in 1..(3 * Len(dir_names)) |->
            <<dir_names[((k - 1) \div 3) + 1][1], exts[((k - 1) % 3) + 1]>>]

\* C27: within the installation that returned the file, the three
\* extensions are tried in preference order for a candidate directory before
\* the next candidate directory is tried: the file returned is the first
\* existing one in that order.
C27_ExtensionsPerDirectory ==
    (last.n > 0 /\ last.result[1] = "theme") =>
        last.result =
            FirstExisting(fs, last.result[2], last.q.name,
                DirectoryMajor(closest_match_size(index[last.result[2]].dirs,
                                   last.q.size, last.q.scale, last.q.force_svg),
                               last.q.force_svg))

\* C28: inheritance is followed transitively: A inherits B, B inherits C,
\* the icon exists only in C and C is no fallback theme; find() on A returns
\* the file under C.
C28_TransitiveInherits ==
    (/\ last.n > 0 /\ last.q.theme = "A"
     /\ index[<<1, "A">>].inherits = <<"B">>
     /\ index[<<1, "B">>].inherits = <<"C">>
     /\ fs # {} /\ \A f \in fs : f[2] = <<1, "C">>)
        => UnderTheme(last.result, "C")

-----------------------------------------------------------------------------
(* The order of the stages of one find(), on the calls of SpecSearch *)

\* The place of the search of an installation in the log, 0 when it was not
\* searched
SearchPos(path) ==
    IF Count(last.log, <<"search", path>>) = 0 THEN 0
    ELSE CHOOSE i \in 1..Len(last.log) : last.log[i] = <<"search", path>>

\* The theme whose installations the call starts with
ActiveName ==
    IF last.q.theme \in DOMAIN themes THEN last.q.theme ELSE "hicolor"

\* The registered themes named by the Inherits of the active theme
DeclaredParentNames ==
    {P \in DOMAIN themes :
        \E t \in Installations(ActiveName) :
            Readable(t) /\ Contains(index[t.index].inherits, P)}

ClaimedFallbackOrder == <<"Cosmic", "hicolor", "gnome", "Yaru">>

FallbackRank(name) ==
    CHOOSE i \in 1..Len(ClaimedFallbackOrder) : ClaimedFallbackOrder[i] = name

\* With the themes of firstGroup searched as the active theme and its
\* parents: the other registered fallback themes are searched after every
\* installation of firstGroup and in the claimed order, no installation is
\* searched twice, and a base path is tried after every installation of
\* every registered fallback theme
FallbackStage(firstGroup) ==
    LET fallbackOnly == (Range(ClaimedFallbackOrder) \cap DOMAIN themes) \ firstGroup
    IN  /\ NoRepeat(last.log, "search")
        /\ \A F \in fallbackOnly : \A tF \in Installations(F) :
              SearchPos(tF.path) > 0 =>
                  /\ \A G \in firstGroup : \A tG \in Installations(G) :
                        /\ SearchPos(tG.path) > 0
                        /\ SearchPos(tG.path) < SearchPos(tF.path)
                  /\ \A E \in fallbackOnly : \A tE \in Installations(E) :
                        FallbackRank(E) < FallbackRank(F) =>
                            /\ SearchPos(tE.path) > 0
                            /\ SearchPos(tE.path) < SearchPos(tF.path)
        /\ \A i \in 1..Len(last.log) :
              last.log[i][1] = "base_path" =>
                  \A F \in Range(ClaimedFallbackOrder) \cap DOMAIN themes :
                      \A tF \in Installations(F) :
                          SearchPos(tF.path) > 0 /\ SearchPos(tF.path) < i

SearchedCall == last.n > 0 /\ ActiveName \in DOMAIN themes

\* C29 (as claimed): the fallback themes are searched in the order Cosmic,
\* hicolor, gnome, Yaru, each skipped when already searched in this call,
\* after every installation of the active theme and of its declared parents
\* and before the base paths.
C29_FallbackOrder ==
    SearchedCall => FallbackStage({ActiveName} \cup DeclaredParentNames)

\* C29 (amended): as above for the declared parents other than hicolor; an
\* Inherits entry hicolor is dropped, and hicolor is searched at its place
\* in the fallback order, after Cosmic.
C29_FallbackOrderAmended ==
    SearchedCall =>
        FallbackStage({ActiveName} \cup (DeclaredParentNames \ {"hicolor"}))

\* A missing call on A, which inherits B, searched A, B, Cosmic and hicolor
\* in this order and then tried the base paths
C29_Witness ==
    /\ last.n > 0 /\ last.q.theme = "A" /\ "A" \in DOMAIN themes
    /\ DeclaredParentNames = {"B"}
    /\ {"Cosmic", "hicolor"} \subseteq DOMAIN themes
    /\ 0 < SearchPos(<<1, "A">>)
    /\ SearchPos(<<1, "A">>) < SearchPos(<<1, "B">>)
    /\ SearchPos(<<1, "B">>) < SearchPos(<<1, "Cosmic">>)
    /\ SearchPos(<<1, "Cosmic">>) < SearchPos(<<1, "hicolor">>)
    /\ \E i \in 1..Len(last.log) : last.log[i][1] = "base_path"

-----------------------------------------------------------------------------
(* SpecDistance: directory_size_distance on directories of the three types  *)
(* and requested sizes and scales below, inside and above their ranges      *)

\* The directory of an index file whose section gives its Size only
ParsedSizeOnly ==
    get_all_directories(IndexFile(<<LineIconTheme, LineA, LineSize, LineB>>,
                                  TRUE)).dirs

DistanceDirs ==
    {Directory(<<"d">>, type_, size, scale, minsize, maxsize, DefaultThreshold) :
        type_ \in {"Fixed", "Scalable", "Threshold"}, size \in {16, 24, 48},
        scale \in {1, 2}, minsize \in {8, 16}, maxsize \in {48, 64}}
    \cup Range(ParsedSizeOnly)

DistanceSizes == {4, 8, 16, 24, 32, 48, 64, 100, 128}

InitDistance ==
    /\ themes = <<>> /\ index = <<>> /\ fs = {}
    /\ cache = EmptyCache /\ now = 0 /\ calls = 0 /\ last = NoCall
    /\ \E d \in DistanceDirs, size \in DistanceSizes, scale \in {1, 2} :
          st = [pc |-> "args", d |-> d, size |-> size, scale |-> scale]

DirectorySizeDistance ==
    /\ st.pc = "args"
    /\ st' = [pc |-> "distance", d |-> st.d, size |-> st.size,
              scale |-> st.scale,
              distance |-> directory_size_distance(st.d, st.size, st.scale)]
    /\ UNCHANGED <<themes, index, fs, cache, now, calls, last>>

NextDistance == DirectorySizeDistance

SpecDistance == InitDistance /\ [][NextDistance]_vars

\* C30: for a Scalable directory the distance is 0 when
\* minsize * scale_dir <= requested_size * requested_scale
\* <= maxsize * scale_dir, and otherwise the non-zero gap between the scaled
\* requested size and the nearest of the two bounds.
C30_ScalableDistance ==
    (st.pc = "distance" /\ st.d.type_ = "Scalable") =>
        LET requested == st.size * st.scale
            lower == st.d.minsize * st.d.scale
            upper == st.d.maxsize * st.d.scale
        IN  IF lower <= requested /\ requested <= upper
            THEN st.distance = 0
            ELSE IF requested < lower
                 THEN Abs16(st.distance) = lower - requested
                 ELSE Abs16(st.distance) = requested - upper

\* C31: for a Threshold directory the distance is 0 when
\* (size - threshold) * requested_scale <= requested_size * requested_scale
\* <= (size + threshold) * requested_scale, minsize * scale_dir minus the
\* scaled requested size below that band and the scaled requested size minus
\* maxsize * scale_dir above it; a section that gives its Size only has
\* minsize = maxsize = size and threshold = 2.
C31_ThresholdDistance ==
    /\ ParsedSizeOnly # <<>>
    /\ \A d \in Range(ParsedSizeOnly) :
          /\ d.type_ = "Threshold" /\ d.threshold = 2
          /\ d.minsize = d.size /\ d.maxsize = d.size
    /\ (st.pc = "distance" /\ st.d.type_ = "Threshold") =>
          LET requested == st.size * st.scale
              lower == (st.d.size - st.d.threshold) * st.scale
              upper == (st.d.size + st.d.threshold) * st.scale
          IN  IF lower <= requested /\ requested <= upper
              THEN st.distance = 0
              ELSE IF requested < lower
                   THEN st.distance = st.d.minsize * st.d.scale - requested
                   ELSE st.distance = requested - st.d.maxsize * st.d.scale

\* Below the band of a directory of another scale than the requested one,
\* with a minsize other than its size: the gap to minsize * scale_dir
C31_Witness ==
    /\ st.pc = "distance" /\ st.d.type_ = "Threshold"
    /\ st.d.scale # st.scale /\ st.d.minsize # st.d.size
    /\ st.size * st.scale < (st.d.size - st.d.threshold) * st.scale
    /\ st.distance = st.d.minsize * st.d.scale - st.size * st.scale
    /\ st.distance # 0

-----------------------------------------------------------------------------
(* SpecFixed: the distance of a Fixed directory and its absolute value for   *)
(* requested sizes and scales over the u16 range.  The arithmetic is on i16: *)
(* a build with overflow checks panics where a product, the difference or    *)
(* abs() leaves the range, a build without them wraps                        *)

FixedDirs ==
    {Directory(<<"d">>, "Fixed", size, scale, size, size, DefaultThreshold) :
        size \in {16, 48, 256}, scale \in {1, 2, 3}}

FixedSizes == {0, 24, 200, 32767, 32768, 32784, 40000, 65535}

FixedScales == {1, 2, 200, 65535}

InI16(x) == -32768 <= x /\ x <= 32767

\* An operation of the Fixed branch or the abs() of the caller overflows
FixedOverflows(d, size, scale) ==
    LET requested == I16(size) * I16(scale)
        own == d.size * d.scale
    IN  \/ ~InI16(requested) \/ ~InI16(own)
        \/ ~InI16(own - requested)
        \/ own - requested = -32768

InitFixed ==
    /\ themes = <<>> /\ index = <<>> /\ fs = {}
    /\ cache = EmptyCache /\ now = 0 /\ calls = 0 /\ last = NoCall
    /\ \E d \in FixedDirs, size \in FixedSizes, scale \in FixedScales :
          st = [pc |-> "args", d |-> d, size |-> size, scale |-> scale]

\* closest_match_size, lines 109-110, in a build without overflow checks
DistanceWrapping ==
    /\ st.pc = "args"
    /\ st' = [pc |-> "distance", d |-> st.d, size |-> st.size,
              scale |-> st.scale, panic |-> FALSE,
              distance |-> directory_size_distance(st.d, st.size, st.scale),
              rank |-> Abs16(directory_size_distance(st.d, st.size, st.scale))]
    /\ UNCHANGED <<themes, index, fs, cache, now, calls, last>>

\* The same in a build with overflow checks
DistanceChecked ==
    /\ st.pc = "args"
    /\ st' = IF FixedOverflows(st.d, st.size, st.scale)
             THEN [pc |-> "distance", d |-> st.d, size |-> st.size,
                   scale |-> st.scale, panic |-> TRUE, distance |-> 0,
                   rank |-> 0]
             ELSE [pc |-> "distance", d |-> st.d, size |-> st.size,
                   scale |-> st.scale, panic |-> FALSE,
                   distance |-> directory_size_distance(st.d, st.size, st.scale),
                   rank |-> Abs16(directory_size_distance(st.d, st.size, st.scale))]
    /\ UNCHANGED <<themes, index, fs, cache, now, calls, last>>

NextFixed == DistanceWrapping \/ DistanceChecked

SpecFixed == InitFixed /\ [][NextFixed]_vars

\* C32: for a Fixed directory the distance is the integer
\* size * scale_dir - requested_size * requested_scale for every requested
\* size and scale in the u16 range, with no overflow or wrap-around in the
\* 16-bit arithmetic, and the absolute value used for ranking is not negative.
C32_FixedDistanceExact ==
    st.pc = "distance" =>
        /\ ~st.panic
        /\ st.distance = st.d.size * st.d.scale - st.size * st.scale
        /\ st.rank >= 0

-----------------------------------------------------------------------------
(* SpecRegistry: get_all_themes over the base paths, every entry <<base,    *)
(* name>> of which is absent, a plain file, a directory without index.theme *)
(* or a directory with its own index.theme                                  *)

RegistryNames == {"A", "B"}

EntryKinds == {"absent", "file", "dir", "indexed"}

\* Path::is_dir
is_dir(disk, path) == disk[path] \in {"dir", "indexed"}

\* <path>/index.theme exists
local_index_exists(disk, path) == disk[path] = "indexed"

\* Option<&PathBuf>: <<>> is None, <<p>> is Some(p)
\* Theme::from_path: index.cloned().or_else(|| local_index_exists.then_some(path))
Theme_from_path(disk, path, idx) ==
    IF ~(local_index_exists(disk, path) \/ idx # <<>>) \/ ~is_dir(disk, path)
    THEN <<>>
    ELSE <<Theme(path, IF idx # <<>> THEN idx[1] ELSE path)>>

RegistryStart ==
    [icon_themes |-> [n \in RegistryNames |-> <<>>],
     found_indices |-> [n \in RegistryNames |-> <<>>],
     to_revisit |-> <<>>]

\* The body of the inner loop of the first pass for one entry
VisitEntry(disk, acc, path) ==
    LET name == path[2]
        fallback_index == acc.found_indices[name]
        theme == Theme_from_path(disk, path, fallback_index)
    IN  IF disk[path] = "absent" THEN acc
        ELSE IF theme # <<>>
        THEN [acc EXCEPT
                !.found_indices[name] =
                    IF fallback_index = <<>> THEN <<theme[1].index>> ELSE @,
                !.icon_themes[name] = Append(@, theme[1])]
        ELSE IF is_dir(disk, path)
        THEN [acc EXCEPT !.to_revisit = Append(@, path)]
        ELSE acc

\* The body of the loop over to_revisit for one entry
RevisitEntry(disk, acc, path) ==
    LET theme == Theme_from_path(disk, path, acc.found_indices[path[2]]) IN
    IF theme # <<>>
    THEN [acc EXCEPT !.icon_themes[path[2]] = Append(@, theme[1])]
    ELSE acc

RECURSIVE FirstPass(_, _, _)
FirstPass(disk, acc, entries) ==
    IF entries = <<>> THEN acc
    ELSE FirstPass(disk, VisitEntry(disk, acc, Head(entries)), Tail(entries))

RECURSIVE Revisit(_, _, _)
Revisit(disk, acc, entries) ==
    IF entries = <<>> THEN acc
    ELSE Revisit(disk, RevisitEntry(disk, acc, Head(entries)), Tail(entries))

\* The entries in the order of the two nested loops: base paths in their
\* order, the names of one base path in the order read_dir yields them
RECURSIVE ReadOrder(_, _)
ReadOrder(bases, order) ==
    IF bases = <<>> THEN <<>>
    ELSE [i \in 1..Len(order) |-> <<Head(bases), order[i]>>]
            \o ReadOrder(Tail(bases), order)

get_all_themes(disk, order) ==
    LET first == FirstPass(disk, RegistryStart, ReadOrder(BASE_PATHS, order)) IN
    Revisit(disk, first, first.to_revisit).icon_themes

RegistryPaths == Range(BASE_PATHS) \X RegistryNames

InitRegistry ==
    /\ themes = <<>> /\ index = <<>> /\ fs = {}
    /\ cache = EmptyCache /\ now = 0 /\ calls = 0 /\ last = NoCall
    /\ \E disk \in [RegistryPaths -> EntryKinds] :
          st = [pc |-> "start", disk |-> disk]

\* The one initialisation of the registry
GetAllThemes ==
    /\ st.pc = "start"
    /\ \E order \in {o \in SeqsUpTo(RegistryNames, Cardinality(RegistryNames)) :
                        Range(o) = RegistryNames /\ Injective(o)} :
          st' = [pc |-> "built", disk |-> st.disk,
                 registry |-> get_all_themes(st.disk, order)]
    /\ UNCHANGED <<themes, index, fs, cache, now, calls, last>>

NextRegistry == GetAllThemes

SpecRegistry == InitRegistry /\ [][NextRegistry]_vars

Registered(name) == Range(st.registry[name])

\* C34: in the registry every installation that holds its own index.theme
\* is registered with that index file, an installation without one with the
\* index file of the first installation registered under its name, and
\* every directory of a name that has an index file somewhere is kept.
C34_OwnIndexRegistered ==
    st.pc = "built" =>
        \A name \in RegistryNames :
            /\ \A t \in Registered(name) :
                  IF local_index_exists(st.disk, t.path)
                  THEN t.index = t.path
                  ELSE t.index = st.registry[name][1].index
            /\ (\E b \in Range(BASE_PATHS) : st.disk[<<b, name>>] = "indexed") =>
                  {t.path : t \in Registered(name)} =
                      {p \in RegistryPaths : p[2] = name /\ is_dir(st.disk, p)}

-----------------------------------------------------------------------------
(* SpecPwaExact: one uncached lookup of a name whose <name>.png lies in up  *)
(* to MaxFiles of the directories 64x64, 128x128 and 512x512 of the two     *)
(* search locations                                                         *)

ExactPx == {64, 128, 512}

ExactFiles ==
    {ExactCandidate(<<b, SizeName(px)>>, NameChrome) :
        b \in Range(PwaBaseDirs), px \in ExactPx}

ExactQueries ==
    {PwaQuery(NameChrome, px, prefer_dark, FALSE) :
        px \in ExactPx, prefer_dark \in BOOLEAN}

InitPwaExact ==
    /\ themes = <<>> /\ index = <<>>
    /\ fs \in {Range(files) : files \in SeqsUpTo(ExactFiles, MaxFiles)}
    /\ cache = EmptyCache /\ now = 0 /\ calls = MaxCalls - 1
    /\ last = PwaNoCall /\ st = Idle

NextPwaExact == \E q \in ExactQueries : LookupPwa(q)

SpecPwaExact == InitPwaExact /\ [][NextPwaExact]_vars

\* The exact-name files of the directory of the requested size, in any
\* search location
ExactAtRequested ==
    {f \in ExactNameFiles(fs, last.q.name) :
        f[3] = SizeName(last.q.requested_px)}

\* C35: when <name>.png exists in the directory of the requested size of
\* some search location, the exact-name pass returns a file of the
\* requested size, whatever other sizes hold in any location.
C35_RequestedSizeAcrossLocations ==
    (last.n > 0 /\ ExactAtRequested # {}) => last.result \in ExactAtRequested

-----------------------------------------------------------------------------
(* SpecCacheEq: cached find() calls over a file system that never changes:  *)
(* one installation of hicolor with the directories 24x24 and scalable and  *)
(* any set of a.png and a.svg files in them                                 *)

EqDirs == <<D24, DScalable>>

EqQueries ==
    {Query("a", TRUE, svg, 1, size, theme) :
        svg \in BOOLEAN, size \in {24, 48}, theme \in {"hicolor", "Z"}}

InitCacheEq ==
    \E files \in SUBSET (Range(EqDirs) \X {".png", ".svg"}) :
        InitWorld(ThemeWorld(EqDirs, files))

NextCacheEq ==
    \/ \E q \in EqQueries : Find(q)
    \/ Advance(10)

SpecCacheEq == InitCacheEq /\ [][NextCacheEq]_vars

\* The identical query without with_cache(), on the same file system
Uncached(q) ==
    find(themes, index, fs, EmptyCache, last.at, [q EXCEPT !.cache = FALSE]).result

\* C36: a find() with with_cache() returns what the identical query without
\* it returns, after any sequence of earlier cached calls.
C36_CachedEqualsUncached ==
    (last.n > 0 /\ last.q.cache) => last.result = Uncached(last.q)

-----------------------------------------------------------------------------
(* SpecFindClear: threads that run find() with with_cache() and             *)
(* cache_clear() on the one CACHE. Each Cache method holds the mutex for    *)
(* its whole body, so it is one step; find() takes the mutex twice, in      *)
(* cache_lookup and in store, and searches between the two without it.      *)
(* st: for each thread its position in find(), its query, the epoch (number *)
(* of finished clears) at which its search started and the icon it found;   *)
(* last: the finished clears and, for each key of the cache, the epoch at   *)
(* which the search that produced its entry started.                        *)

FindNames == {"a", "b"}

FindQuery(name) == Query(name, TRUE, FALSE, 1, 24, "hicolor")

\* Option of an epoch: <<>> is none, <<e>> is the epoch e
NoOrigin == <<>>

InitFindClear ==
    /\ \E files \in SUBSET ({D24} \X {".png", ".svg"}) :
          LET w == ThemeWorld(<<D24>>, files) IN
          themes = w.themes /\ index = w.index /\ fs = w.fs
    /\ cache = EmptyCache /\ now = 0 /\ calls = 0
    /\ last = [epoch |-> 0, origin |-> [n \in FindNames |-> NoOrigin]]
    /\ st = [pc |-> [t \in Threads |-> "idle"],
             q |-> [t \in Threads |-> FindQuery("a")],
             start |-> [t \in Threads |-> 0],
             icon |-> [t \in Threads |-> NoIcon]]

\* lookup_in_theme, lines 308-318: cache_lookup; Found and a fresh NotFound
\* end the call, anything else starts the search
FindLookup(t, q) ==
    LET entry == Cache_get(cache, q.theme, q.size, q.scale, q.name) IN
    /\ st.pc[t] = "idle"
    /\ calls < MaxCalls
    /\ calls' = calls + 1
    /\ st' = IF \/ entry[1] = "Found"
                \/ entry[1] = "NotFound" /\ NotFoundIsFresh(entry[2], now)
             THEN st
             ELSE [st EXCEPT !.pc[t] = "searching", !.q[t] = q,
                             !.start[t] = last.epoch]
    /\ UNCHANGED <<themes, index, fs, cache, now, last>>

\* Lines 326-372: the search over the registry and the files, without the
\* mutex
FindSearch(t) ==
    /\ st.pc[t] = "searching"
    /\ st' = [st EXCEPT
                !.pc[t] = "found",
                !.icon[t] = find(themes, index, fs, EmptyCache, now,
                                 [st.q[t] EXCEPT !.cache = FALSE]).result]
    /\ UNCHANGED <<themes, index, fs, cache, now, calls, last>>

\* Lines 374-375: store
FindStore(t) ==
    /\ st.pc[t] = "found"
    /\ cache' = store(cache, st.q[t], st.icon[t], now)
    /\ last' = [last EXCEPT !.origin[st.q[t].name] = <<st.start[t]>>]
    /\ st' = [st EXCEPT !.pc[t] = "idle"]
    /\ UNCHANGED <<themes, index, fs, now, calls>>

\* cache_clear of a thread that is not inside find()
FindCacheClear(t) ==
    /\ st.pc[t] = "idle"
    /\ calls < MaxCalls
    /\ calls' = calls + 1
    /\ cache' = Cache_clear(cache)
    /\ last' = [epoch |-> last.epoch + 1,
                origin |-> [n \in FindNames |-> NoOrigin]]
    /\ UNCHANGED <<themes, index, fs, now, st>>

NextFindClear ==
    \E t \in Threads :
        \/ \E n \in FindNames : FindLookup(t, FindQuery(n))
        \/ FindSearch(t)
        \/ FindStore(t)
        \/ FindCacheClear(t)

SpecFindClear == InitFindClear /\ [][NextFindClear]_vars

\* C37: once a cache_clear() has returned, every entry of the cache comes
\* from a search that started after it.
C37_NoStoreAcrossClear ==
    \A n \in FindNames :
        last.origin[n] # NoOrigin => last.origin[n][1] = last.epoch

\* The file with the same lines and the other ending: with a final newline
\* when the parsed one has none, without it when the parsed one has it
OtherEnding(file) == IndexFile(file.lines, ~file.terminated)

\* C38: the directory descriptors and the Inherits list read from an index
\* file are the same whether or not its last line ends with a newline
\* (for a well-formed file that starts with [Icon Theme] and is parsed
\* without a fault with either ending).
C38_FinalNewlineIrrelevant ==
    LET dirs == get_all_directories(OtherEnding(st.file))
        inh == parse_inherits(OtherEnding(st.file))
    IN  (/\ Parsed /\ st.made = "lines" /\ WellFormedLines(st.file)
         /\ st.file.lines # <<>> /\ st.file.lines[1] = LineIconTheme
         /\ ~st.dirs.fault /\ ~st.inh.fault /\ ~dirs.fault /\ ~inh.fault)
            => /\ st.dirs.dirs = dirs.dirs
               /\ st.inh.parents = inh.parents
=============================================================================
